---- MODULE Spec2Model ----
(***************************************************************************)
(* A model of the DAW BASIC interpreter (daw::basic::Basic): the REPL of   *)
(* main(), the statement dispatcher parse_line, the program store, the     *)
(* execution driver run() with its cursor and GOSUB stack, the keyword     *)
(* handlers and the expression evaluator.                                  *)
(*                                                                         *)
(* Text is modelled as TLA+ strings, read character by character as the    *)
(* scanners of the source do.  Positions are 0-based as in the source;     *)
(* npos is -1.  A function of the source that can throw returns a record   *)
(* [err, v]: err = "" and the value in v, or err = the ErrorTypes kind the *)
(* BasicException was created with ("SYNTAX", "FATAL") or "STD" for a      *)
(* std::exception that is no BasicException.                               *)
(***************************************************************************)
EXTENDS Integers, Sequences, FiniteSets, TLC

\* ------------------------------------------------------------------------
\* Characters
\* ------------------------------------------------------------------------

\* The printable ASCII characters in code order, codes 32 .. 126.  The place
\* of code 96 (the backquote, which no BASIC text uses) holds a tab.
Ascii ==
  " !\"#$%&'()*+,-./0123456789:;<=>?@ABCDEFGHIJKLMNOPQRSTUVWXYZ[\\]^_\tabcdefghijklmnopqrstuvwxyz{|}~"

\* The terminating null character a std::string yields when read at index size().
NUL == "\\0"

npos == -1

Min(a, b) == IF a < b THEN a ELSE b

OrdTable ==
  [c \in {SubSeq(Ascii, i, i) : i \in 1..Len(Ascii)} |->
      31 + (CHOOSE i \in 1..Len(Ascii) : SubSeq(Ascii, i, i) = c)]

\* The character code of c, as the char-to-integer conversions of the source see it.
Ord(c) == IF c = NUL THEN 0 ELSE IF c = "\t" THEN 9 ELSE OrdTable[c]

Chr(n) == SubSeq(Ascii, n - 31, n - 31)

\* value[pos] of a std::string (pos <= size).
CharAt(s, pos) == IF 0 <= pos /\ pos < Len(s) THEN SubSeq(s, pos + 1, pos + 1) ELSE NUL

\* std::string::substr( pos, n ) and substr( pos ), for pos <= size.
substr(s, pos, n) == SubSeq(s, pos + 1, Min(pos + n, Len(s)))
substr_from(s, pos) == SubSeq(s, pos + 1, Len(s))

\* std::string::find( ch ) / find_first_of( ch ): first position of ch, or npos.
find_first_of(s, ch) ==
  IF \E p \in 0..(Len(s) - 1) : CharAt(s, p) = ch
  THEN CHOOSE p \in 0..(Len(s) - 1) :
         CharAt(s, p) = ch /\ \A q \in 0..(p - 1) : CharAt(s, q) # ch
  ELSE npos

\* std::string::find_last_of( ch ).
find_last_of(s, ch) ==
  IF \E p \in 0..(Len(s) - 1) : CharAt(s, p) = ch
  THEN CHOOSE p \in 0..(Len(s) - 1) :
         CharAt(s, p) = ch /\ \A q \in (p + 1)..(Len(s) - 1) : CharAt(s, q) # ch
  ELSE npos

isspace(c) == c \in {" ", "\t"}
isdigit(c) == c # NUL /\ c # "\t" /\ Ord(c) >= 48 /\ Ord(c) <= 57

\* boost::algorithm::trim_copy
trim_copy(s) ==
  IF \A p \in 0..(Len(s) - 1) : isspace(CharAt(s, p))
  THEN ""
  ELSE LET first == CHOOSE p \in 0..(Len(s) - 1) :
                      ~isspace(CharAt(s, p)) /\ \A q \in 0..(p - 1) : isspace(CharAt(s, q))
           last  == CHOOSE p \in 0..(Len(s) - 1) :
                      ~isspace(CharAt(s, p)) /\ \A q \in (p + 1)..(Len(s) - 1) : isspace(CharAt(s, q))
       IN  SubSeq(s, first + 1, last + 1)

toupper(c) == IF c # NUL /\ c # "\t" /\ Ord(c) >= 97 /\ Ord(c) <= 122 THEN Chr(Ord(c) - 32) ELSE c

\* boost::algorithm::to_upper_copy
RECURSIVE to_upper_copy(_)
to_upper_copy(s) ==
  IF s = "" THEN "" ELSE toupper(CharAt(s, 0)) \o to_upper_copy(substr_from(s, 1))

\* ------------------------------------------------------------------------
\* Results of functions that can throw
\* ------------------------------------------------------------------------

Ok(v) == [err |-> "", v |-> v]
Throw(kind) == [err |-> kind, v |-> 0]

\* An exception leaves every function between the throw and the handler:
\* after a call that threw, the rest of the caller is skipped.  Then gives
\* the outcome of  r  followed by the rest  F  of the caller, which takes the
\* value r returned.
Then(r, F(_)) == IF r.err # "" THEN r ELSE F(r.v)

\* The value x under the name the source gives it in the statements F.
Bind(x, F(_)) == F(x)

\* ------------------------------------------------------------------------
\* Lexical helpers (anonymous namespace of dawbasic.cpp)
\* ------------------------------------------------------------------------

\* get_value_type( std::string ): the ValueType a text has by its shape.
get_value_type(text) ==
  LET value    == trim_copy(text)
      startpos == IF CharAt(value, 0) = "-" THEN 1 ELSE 0
      idx      == startpos..(Len(value) - 1)
      bad(n)   == LET c == CharAt(value, n) IN
                    \/ c = "-"
                    \/ /\ c = "."
                       /\ \/ Len(value) = n + 1
                          \/ \E m \in startpos..(n - 1) : CharAt(value, m) = "."
                    \/ c # "." /\ ~isdigit(c)
  IN  IF value = "" THEN "EMPTY"
      ELSE IF \E n \in idx : bad(n) THEN "STRING"
      ELSE IF \E n \in idx : CharAt(value, n) = "." THEN "REAL"
      ELSE "INTEGER"

\* split_in_two_on_char: the trimmed text cut at the first separator.
split_in_two_on_char(parse_string, separator) ==
  LET s   == trim_copy(parse_string)
      pos == find_first_of(s, separator)
  IN  IF pos # npos
      THEN << trim_copy(substr(s, 0, pos)), trim_copy(substr_from(s, pos + 1)) >>
      ELSE << s >>

RECURSIVE digits_value(_)
digits_value(s) ==
  IF s = "" THEN 0
  ELSE digits_value(SubSeq(s, 1, Len(s) - 1)) * 10 + (Ord(CharAt(s, Len(s) - 1)) - 48)

\* to_integer( std::string ): boost::lexical_cast<integer>, which throws
\* bad_lexical_cast (a std::exception) unless the whole text is [+-]digits
\* that fit 32 bits.  Numerals of the model have at most 9 digits, so that
\* every numeral that passes fits.
to_integer(value) ==
  LET c0     == CharAt(value, 0)
      signed == c0 \in {"-", "+"}
      body   == IF signed THEN substr_from(value, 1) ELSE value
  IN  IF body = "" \/ Len(body) > 9 \/ \E p \in 0..(Len(body) - 1) : ~isdigit(CharAt(body, p))
      THEN Throw("STD")
      ELSE IF c0 = "-" THEN Ok(0 - digits_value(body)) ELSE Ok(digits_value(body))

\* to_string( integer ): operator<< of a stringstream.
RECURSIVE nat_to_string(_)
nat_to_string(n) ==
  IF n < 10 THEN Chr(48 + n) ELSE nat_to_string(n \div 10) \o Chr(48 + (n % 10))

integer_to_string(n) == IF n < 0 THEN "-" \o nat_to_string(0 - n) ELSE nat_to_string(n)

\* find_end_of_string: position of the closing quote.  The scan starts after
\* a leading quote; a quote preceded by a backslash does not close.
find_end_of_string(value) ==
  LET start   == IF CharAt(value, 0) = "\"" THEN 1 ELSE 0
      close(p) == CharAt(value, p) = "\"" /\ ~(p # 0 /\ CharAt(value, p - 1) = "\\")
  IN  IF \E p \in start..(Len(value) - 1) : close(p)
      THEN Ok(CHOOSE p \in start..(Len(value) - 1) :
                close(p) /\ \A q \in start..(p - 1) : ~close(q))
      ELSE Throw("SYNTAX")

\* The loop of find_end_of_bracket from position pos with bracket_count open.
RECURSIVE find_end_of_bracket_from(_, _, _)
find_end_of_bracket_from(value, pos, bracket_count) ==
  IF pos >= Len(value) THEN Throw("SYNTAX")
  ELSE IF CharAt(value, pos) = "(" THEN find_end_of_bracket_from(value, pos + 1, bracket_count + 1)
  ELSE IF CharAt(value, pos) = ")"
       THEN IF bracket_count - 1 = 0 THEN Ok(pos)
            ELSE find_end_of_bracket_from(value, pos + 1, bracket_count - 1)
  ELSE find_end_of_bracket_from(value, pos + 1, bracket_count)

\* find_end_of_bracket: position of the bracket closing the one level that
\* is taken to be open at position 0 (the character there is not looked at,
\* unless it is the closing bracket itself).
find_end_of_bracket(value) ==
  IF CharAt(value, 0) = ")" THEN Ok(0) ELSE find_end_of_bracket_from(value, 1, 1)

end_chars == {" ", "\t", "^", "*", "/", "+", "-", "=", "<", ">", "%"}

\* The loop of find_end_of_operand.
RECURSIVE find_end_of_operand_from(_, _, _, _)
find_end_of_operand_from(value, pos, bracket_count, has_brackets) ==
  IF pos >= Len(value) THEN Ok(Len(value) - 1)
  ELSE LET current_char == CharAt(value, pos) IN
    IF 0 >= bracket_count
    THEN IF current_char = "\"" THEN Throw("SYNTAX")
         ELSE IF current_char = ")" THEN Throw("SYNTAX")
         ELSE IF current_char \in end_chars THEN Ok(pos - 1)
         ELSE IF current_char = "("
              THEN IF has_brackets THEN Throw("SYNTAX")
                   ELSE find_end_of_operand_from(value, pos + 1, bracket_count + 1, TRUE)
         ELSE find_end_of_operand_from(value, pos + 1, bracket_count, has_brackets)
    ELSE IF current_char = "\""
         THEN LET eos == find_end_of_string(substr_from(value, pos)) IN
              IF eos.err # "" THEN eos
              ELSE find_end_of_operand_from(value, pos + eos.v + 1, bracket_count, has_brackets)
         ELSE IF current_char = ")"
              THEN find_end_of_operand_from(value, pos + 1, bracket_count - 1, has_brackets)
         ELSE IF current_char = "("
              THEN find_end_of_operand_from(value, pos + 1, bracket_count + 1, has_brackets)
         ELSE find_end_of_operand_from(value, pos + 1, bracket_count, has_brackets)

\* find_end_of_operand: position of the last character of the operand that
\* starts the text.
find_end_of_operand(value) == find_end_of_operand_from(value, 0, 0, FALSE)

remove_outer_characters(value, lhs, rhs) ==
  IF 2 <= Len(value) /\ CharAt(value, 0) = lhs /\ CharAt(value, Len(value) - 1) = rhs
  THEN substr(value, 1, Len(value) - 2)
  ELSE value

remove_outer_quotes(value) == remove_outer_characters(value, "\"", "\"")
remove_outer_bracket(value) == remove_outer_characters(value, "(", ")")

\* replace_all( str, "\\\"", "\"" ): every backslash-quote becomes a quote.
RECURSIVE replace_escaped_quotes(_)
replace_escaped_quotes(str) ==
  IF str = "" THEN ""
  ELSE IF CharAt(str, 0) = "\\" /\ CharAt(str, 1) = "\""
       THEN "\"" \o replace_escaped_quotes(substr_from(str, 2))
       ELSE CharAt(str, 0) \o replace_escaped_quotes(substr_from(str, 1))

\* ------------------------------------------------------------------------
\* Values
\* ------------------------------------------------------------------------

\* BasicValue = std::pair<ValueType, boost::any>.  The payload of a REAL is
\* kept symbolically (its literal text, or the call that produced it).
basic_value_integer(n) == [first |-> "INTEGER", second |-> n]
basic_value_real(r)    == [first |-> "REAL",    second |-> r]
basic_value_boolean(b) == [first |-> "BOOLEAN", second |-> b]
basic_value_string(t)  == [first |-> "STRING",  second |-> t]
EMPTY_BASIC_VALUE      == [first |-> "EMPTY",   second |-> 0]

\* to_numeric( BasicValue ): defined on INTEGER and REAL, FATAL otherwise.
to_numeric(value) ==
  IF value.first \in {"INTEGER", "REAL"} THEN Ok(value.second) ELSE Throw("FATAL")

\* to_boolean( BasicValue ): FATAL unless the value is a BOOLEAN.
to_boolean(value) ==
  IF value.first = "BOOLEAN" THEN Ok(value.second) ELSE Throw("FATAL")

\* to_string( BasicValue )
value_to_string(value) ==
  CASE value.first = "EMPTY"   -> ""
    [] value.first = "INTEGER" -> integer_to_string(value.second)
    [] value.first = "REAL"    -> "<real>"
    [] value.first = "STRING"  -> value.second
    [] value.first = "BOOLEAN" -> IF value.second THEN "TRUE" ELSE "FALSE"

determine_result_type(lhs_type, rhs_type) ==
  CASE lhs_type = "INTEGER" /\ rhs_type \in {"STRING", "INTEGER", "REAL"} -> rhs_type
    [] lhs_type = "REAL" /\ rhs_type \in {"INTEGER", "REAL"} -> "REAL"
    [] lhs_type = "REAL" /\ rhs_type = "STRING" -> "STRING"
    [] lhs_type = "STRING" /\ rhs_type \in {"INTEGER", "REAL", "STRING"} -> "STRING"
    [] lhs_type = "BOOLEAN" /\ rhs_type = "BOOLEAN" -> "BOOLEAN"
    [] OTHER -> "EMPTY"

operator_rank(oper) ==
  CASE oper = "NEG" -> Ok(1)
    [] oper = "^" -> Ok(2)
    [] oper \in {"*", "/"} -> Ok(3)
    [] oper \in {"+", "-", "%"} -> Ok(4)
    [] oper \in {">>", "<<"} -> Ok(5)
    [] oper \in {">", ">=", "<", "<="} -> Ok(6)
    [] oper = "=" -> Ok(7)
    [] oper = "AND" -> Ok(8)
    [] oper = "OR" -> Ok(9)
    [] OTHER -> Throw("FATAL")

\* std::string::compare: negative, zero or positive.
RECURSIVE string_compare(_, _)
string_compare(a, b) ==
  IF a = "" /\ b = "" THEN 0
  ELSE IF a = "" THEN -1
  ELSE IF b = "" THEN 1
  ELSE IF CharAt(a, 0) = CharAt(b, 0) THEN string_compare(substr_from(a, 1), substr_from(b, 1))
  ELSE IF Ord(CharAt(a, 0)) < Ord(CharAt(b, 0)) THEN -1 ELSE 1

\* Integer division and remainder of C++ (truncation toward zero).
cpp_div(a, b) ==
  LET abs(n) == IF n < 0 THEN 0 - n ELSE n
      q      == abs(a) \div abs(b)
  IN  IF (a < 0) # (b < 0) THEN 0 - q ELSE q

cpp_mod(a, b) == a - b * cpp_div(a, b)

\* The arithmetic operators of m_binary_operators.  Arithmetic on REAL is
\* not computed by the model: it ends with the kind "UNMODELLED".
arithmetic_operator(oper, lhs, rhs) ==
  LET result_type == determine_result_type(lhs.first, rhs.first) IN
  CASE result_type = "INTEGER" ->
         ( CASE oper = "*" -> Ok(basic_value_integer(lhs.second * rhs.second))
             [] oper = "+" -> Ok(basic_value_integer(lhs.second + rhs.second))
             [] oper = "-" -> Ok(basic_value_integer(lhs.second - rhs.second))
             [] oper = "/" -> IF rhs.second = 0 THEN Throw("UB")
                              ELSE Ok(basic_value_integer(cpp_div(lhs.second, rhs.second)))
             [] oper = "%" -> IF rhs.second = 0 THEN Throw("UB")
                              ELSE Ok(basic_value_integer(cpp_mod(lhs.second, rhs.second))) )
    [] result_type = "REAL" ->
         IF oper = "%" THEN Throw("SYNTAX") ELSE Throw("UNMODELLED")
    [] result_type = "STRING" /\ oper = "+" ->
         Ok(basic_value_string(remove_outer_quotes(value_to_string(lhs))
                               \o remove_outer_quotes(value_to_string(rhs))))
    [] OTHER -> Throw("SYNTAX")

\* bool < bool of C++, by the integer values 0 and 1.
bool_to_int(b) == IF b THEN 1 ELSE 0

\* The comparison operators of m_binary_operators: "=", "<", "<=", ">", ">=".
\* The comparison operators with values of types that do not go together
\* taken as unequal instead of refused.
comparison_operator_of_any_types(oper, lhs, rhs) ==
  LET result_type == determine_result_type(lhs.first, rhs.first) IN
  IF result_type = "EMPTY"
  THEN Ok(basic_value_boolean(lhs.first = rhs.first /\ oper \in {"=", "<=", ">="}))
  ELSE Ok(basic_value_boolean(FALSE))

comparison_operator(oper, lhs, rhs) ==
  LET result_type == determine_result_type(lhs.first, rhs.first)
      cmp         == string_compare(value_to_string(lhs), value_to_string(rhs))
      l           == IF result_type = "BOOLEAN" THEN bool_to_int(lhs.second) ELSE lhs.second
      r           == IF result_type = "BOOLEAN" THEN bool_to_int(rhs.second) ELSE rhs.second
  IN
  CASE result_type = "BOOLEAN" ->
         Ok(basic_value_boolean(
              CASE oper = "="  -> l = r
                [] oper = "<"  -> l < r
                [] oper = "<=" -> l <= r
                [] oper = ">"  -> l >= r
                [] oper = ">=" -> l >= r))
    [] result_type = "EMPTY" ->
         IF lhs.first = rhs.first
         THEN Ok(basic_value_boolean(oper \in {"=", "<=", ">="}))
         ELSE Throw("SYNTAX")
    [] result_type = "INTEGER" ->
         Ok(basic_value_boolean(
              CASE oper = "="  -> l = r
                [] oper = "<"  -> l < r
                [] oper = "<=" -> l <= r
                [] oper = ">"  -> l > r
                [] oper = ">=" -> l >= r))
    [] result_type = "REAL" -> Throw("UNMODELLED")
    [] result_type = "STRING" ->
         Ok(basic_value_boolean(
              CASE oper = "="  -> 0 = cmp
                [] oper = "<"  -> 0 < cmp
                [] oper = "<=" -> 0 <= cmp
                [] oper = ">"  -> 0 > cmp
                [] oper = ">=" -> 0 >= cmp))

\* m_binary_operators["AND"] and ["OR"]: to_boolean on each side, the right
\* side only when && / || evaluates it.
logical_operator(oper, lhs, rhs) ==
  LET l == to_boolean(lhs)
      r == to_boolean(rhs)
  IN  IF l.err # "" THEN l
      ELSE IF oper = "AND" /\ ~l.v THEN Ok(basic_value_boolean(FALSE))
      ELSE IF oper = "OR" /\ l.v THEN Ok(basic_value_boolean(TRUE))
      ELSE IF r.err # "" THEN r
      ELSE Ok(basic_value_boolean(r.v))

\* m_unary_operators["NEG"]
unary_NEG(lhs) ==
  IF lhs.first = "INTEGER" THEN Ok(basic_value_integer(0 - lhs.second))
  ELSE IF lhs.first = "REAL" THEN Ok(basic_value_real(<< "NEG", lhs.second >>))
  ELSE Throw("SYNTAX")

\* The keys of m_functions, m_keywords, m_binary_operators and m_unary_operators
\* after init( ).
FunctionNames ==
  {"COS", "SIN", "TAN", "ATN", "EXP", "LOG", "SQR", "SQUARE", "ABS", "SGN", "INT", "RND",
   "NEG", "POW", "NOT", "LEN", "LEFT$", "RIGHT$", "MID$", "STR$", "VAL", "ASC", "CHR$"}

KeywordNames ==
  {"NEW", "CLR", "DELETE", "DIM", "LET", "STOP", "CONT", "GOTO", "GOSUB", "RETURN", "PRINT",
   "QUIT", "EXIT", "END", "REM", "LIST", "RUN", "VARS", "FUNCTIONS", "KEYWORDS", "THEN", "IF"}

BinaryOperatorNames == {"*", "/", "+", "-", "^", "%", "=", "<", "<=", ">", ">=", "AND", "OR"}
UnaryOperatorNames == {"NEG"}

\* The powers of an integer by repeated multiplication, as far as a 32-bit
\* integer holds them ("UB" beyond; the one power -2^31 is not told apart).
RECURSIVE int_pow(_, _, _)
int_pow(base, exponent, result) ==
  LET abs(n) == IF n < 0 THEN 0 - n ELSE n IN
  IF exponent = 0 THEN Ok(result)
  ELSE IF base # 0 /\ abs(result) > 2147483647 \div abs(base) THEN Throw("UB")
  ELSE int_pow(base, exponent - 1, result * base)

\* pow( base, exponent ) of two integers, converted back to integer: exact
\* for an exponent that is not negative, a fraction truncated toward zero
\* otherwise.  A result that no 32-bit integer holds makes the conversion
\* undefined.
pow_to_integer(base, exponent) ==
  IF exponent >= 0
  THEN Then(int_pow(base, exponent, 1), LAMBDA result : Ok(basic_value_integer(result)))
  ELSE IF base = 0 THEN Throw("UB")
  ELSE IF base = 1 THEN Ok(basic_value_integer(1))
  ELSE IF base = 0 - 1
       THEN Ok(basic_value_integer(IF exponent % 2 = 0 THEN 1 ELSE 0 - 1))
  ELSE Ok(basic_value_integer(0))

\* LEFT$( string, len )
builtin_LEFT(value) ==
  IF Len(value) # 2 THEN Throw("SYNTAX")
  ELSE IF value[1].first # "STRING" THEN Throw("SYNTAX")
  ELSE IF value[2].first # "INTEGER" THEN Throw("SYNTAX")
  ELSE IF 0 > value[2].second THEN Throw("SYNTAX")
  ELSE Ok(basic_value_string(substr(value_to_string(value[1]), 0, value[2].second)))

\* MID$( string, start, len ): std::string::substr throws out_of_range (a
\* std::exception) for a start behind the end of the string.
builtin_MID(value) ==
  IF Len(value) # 3 THEN Throw("SYNTAX")
  ELSE IF value[1].first # "STRING" THEN Throw("SYNTAX")
  ELSE IF value[2].first # "INTEGER" \/ value[3].first # "INTEGER" THEN Throw("SYNTAX")
  ELSE IF 1 > value[2].second THEN Throw("SYNTAX")
  ELSE IF 1 > value[3].second THEN Throw("SYNTAX")
  ELSE IF value[2].second - 1 > Len(value_to_string(value[1])) THEN Throw("STD")
  ELSE Ok(basic_value_string(substr(value_to_string(value[1]), value[2].second - 1,
                                    value[3].second)))

\* POW( base, exponent ); a REAL result is kept as the call itself.
builtin_POW(value) ==
  IF Len(value) # 2 THEN Throw("SYNTAX")
  ELSE IF determine_result_type(value[1].first, value[2].first) = "INTEGER"
  THEN pow_to_integer(value[1].second, value[2].second)
  ELSE Then(to_numeric(value[1]), LAMBDA base :
       Then(to_numeric(value[2]), LAMBDA exponent :
            Ok(basic_value_real(<< "POW", base, exponent >>))))

\* The builtin functions registered by init( ) with add_function.  The
\* functions of one numeric argument return a REAL kept as the call itself.
exec_builtin(name, value) ==
  CASE name \in {"COS", "SIN", "TAN", "ATN", "EXP", "LOG", "SQR"} ->
         IF Len(value) # 1 THEN Throw("SYNTAX")
         ELSE LET n == to_numeric(value[1]) IN
              IF n.err # "" THEN n ELSE Ok(basic_value_real(<< name, n.v >>))
    [] name = "NOT" ->
         IF Len(value) # 1 THEN Throw("SYNTAX")
         ELSE LET b == to_boolean(value[1]) IN
              IF b.err # "" THEN b ELSE Ok(basic_value_boolean(~b.v))
    [] name = "RND" -> Throw("SYNTAX")
    [] name = "POW" -> builtin_POW(value)
    [] name = "LEFT$" -> builtin_LEFT(value)
    [] name = "MID$" -> builtin_MID(value)
    [] OTHER -> Throw("UNMODELLED")

\* m_binary_operators[oper]( lhs, rhs )
apply_binary_operator(oper, lhs, rhs) ==
  CASE oper \in {"*", "/", "+", "-", "%"} -> arithmetic_operator(oper, lhs, rhs)
    [] oper \in {"=", "<", "<=", ">", ">="} -> comparison_operator(oper, lhs, rhs)
    [] oper \in {"AND", "OR"} -> logical_operator(oper, lhs, rhs)
    [] oper = "^" -> exec_builtin("POW", << lhs, rhs >>)

\* ------------------------------------------------------------------------
\* Symbol environment.  An engine e is a record of the members of class Basic.
\* ------------------------------------------------------------------------

\* key_exists: the key is upper-cased before the table is probed.
key_exists(keys, key) == to_upper_copy(key) \in keys

is_constant(e, name) == key_exists(DOMAIN e.m_constants, name)
is_variable(e, name) == key_exists(DOMAIN e.m_variables, name) \/ is_constant(e, name)
is_array(e, name)    == key_exists(DOMAIN e.m_arrays, name)
is_keyword(e, name)  == key_exists(e.m_keywords, name)
is_function(e, name) == key_exists(e.m_functions, name)

\* get_variable_constant( name ), for a name without brackets.
get_variable_constant(e, name) ==
  LET n == to_upper_copy(name) IN
  IF is_constant(e, n) THEN Ok(e.m_constants[n])
  ELSE IF is_variable(e, n) THEN Ok(e.m_variables[n])
  ELSE Throw("FATAL")

\* ------------------------------------------------------------------------
\* Basic::BasicArray: the dimensions and the cells, in one flat vector.
\* A size_t is kept as the integer it is congruent to modulo 2^64 that is
\* least in magnitude: a negative number stands for a size near 2^64.
\* ------------------------------------------------------------------------

\* multiply_list( dimensions )
RECURSIVE multiply_list(_)
multiply_list(dimensions) ==
  IF dimensions = << >> THEN 1
  ELSE Head(dimensions) * multiply_list(Tail(dimensions))

\* convert_dimensions( dimensions ): to_integer( BasicValue ) of each value,
\* an any_cast that throws bad_any_cast (a std::exception) when the payload
\* is no integer.
convert_dimensions(dimensions) ==
  IF \E n \in 1..Len(dimensions) : dimensions[n].first # "INTEGER" THEN Throw("STD")
  ELSE Ok([n \in 1..Len(dimensions) |-> dimensions[n].second])

\* BasicArray( dimensions ): multiply_list( dimensions ) cells, each
\* value-initialised, which is the Empty value.  A vector of a size near 2^64
\* cannot be made: its constructor throws length_error.
BasicArray(dimensions) ==
  IF multiply_list(dimensions) < 0 THEN Throw("STD")
  ELSE Ok([m_dimensions |-> dimensions,
           m_values     |-> [n \in 1..multiply_list(dimensions) |-> EMPTY_BASIC_VALUE]])

\* The loop of BasicArray::operator( ) with a multiplier that stays 1.
RECURSIVE flat_position_summed(_, _, _, _, _)
flat_position_summed(m_dimensions, dimensions, n, multiplier, pos) ==
  IF n > Len(m_dimensions) THEN pos
  ELSE flat_position_summed(m_dimensions, dimensions, n + 1, multiplier,
                            pos + dimensions[n] * multiplier)

\* The loop of BasicArray::operator( ) from dimension n on.
RECURSIVE flat_position(_, _, _, _, _)
flat_position(m_dimensions, dimensions, n, multiplier, pos) ==
  IF n > Len(m_dimensions) THEN pos
  ELSE flat_position(m_dimensions, dimensions, n + 1, multiplier * m_dimensions[n],
                     pos + dimensions[n] * multiplier)

\* BasicArray::operator( )( dimensions ): the position in m_values of the
\* cell the indexes address.  m_values.at( pos ) throws out_of_range for a
\* position that is no cell, which is rethrown as SYNTAX.
BasicArray_at(array, dimensions) ==
  IF Len(array.m_dimensions) # Len(dimensions) THEN Throw("SYNTAX")
  ELSE Bind(flat_position(array.m_dimensions, dimensions, 1, 1, 0), LAMBDA pos :
         IF 0 <= pos /\ pos < Len(array.m_values) THEN Ok(pos) ELSE Throw("SYNTAX"))

\* A BasicValue& is the place it refers to: a key of m_variables, or a key
\* of m_arrays and a position in the m_values of that array.
variable_ref(key) == [m_arrays |-> FALSE, key |-> key, pos |-> 0]
array_ref(key, pos) == [m_arrays |-> TRUE, key |-> key, pos |-> pos]

\* The value a BasicValue& refers to in the engine e.
deref_value(e, ref) ==
  IF ref.m_arrays THEN e.m_arrays[ref.key].m_values[ref.pos + 1]
  ELSE e.m_variables[ref.key]

\* Assignment through a BasicValue&.
assign_value(e, ref, value) ==
  IF ref.m_arrays THEN [e EXCEPT !.m_arrays[ref.key].m_values[ref.pos + 1] = value]
  ELSE [e EXCEPT !.m_variables[ref.key] = value]

\* The outcome of a member function that returns a reference: the engine it
\* leaves, the kind thrown ("" for none) and the reference returned.
Returned(e, v) == [e |-> e, err |-> "", v |-> v]
Thrown(e, kind) == [e |-> e, err |-> kind, v |-> 0]

\* get_array_variable( name, params ): retrieve_value upper-cases the name,
\* and its operator[] creates an array without dimensions when there is none
\* of that name.
get_array_variable(e, name, params) ==
  LET key     == to_upper_copy(name)
      created == IF key \in DOMAIN e.m_arrays THEN e
                 ELSE [e EXCEPT !.m_arrays =
                         (key :> [m_dimensions |-> << >>, m_values |-> << >>]) @@ @]
  IN  Bind(convert_dimensions(params), LAMBDA index :
        IF index.err # "" THEN Thrown(created, index.err)
        ELSE Bind(BasicArray_at(created.m_arrays[key], index.v), LAMBDA pos :
               IF pos.err # "" THEN Thrown(created, pos.err)
               ELSE Returned(created, array_ref(key, pos.v))))

\* ------------------------------------------------------------------------
\* Expression evaluator
\* ------------------------------------------------------------------------

Last(seq)  == seq[Len(seq)]
Front(seq) == SubSeq(seq, 1, Len(seq) - 1)

\* An is_higher_precedence that lets an operator wait behind one of its
\* own rank.
is_higher_or_equal_precedence(oper, operator_stack) ==
  IF operator_stack = << >> THEN TRUE
  ELSE operator_rank(oper).v <= operator_rank(Last(operator_stack)).v

\* The lambda is_higher_precedence of evaluate.
is_higher_precedence(oper, operator_stack) ==
  IF operator_stack = << >> THEN TRUE
  ELSE operator_rank(oper).v < operator_rank(Last(operator_stack)).v

is_logical_and(value, pos, end) ==
  /\ pos + 3 <= end
  /\ to_upper_copy(substr(value, pos, 3)) = "AND"
  /\ CharAt(value, pos + 3) \in {" ", "\t"}

is_logical_or(value, pos, end) ==
  /\ pos + 2 <= end
  /\ to_upper_copy(substr(value, pos, 2)) = "OR"
  /\ CharAt(value, pos + 2) \in {" ", "\t"}

\* One pass of the reduction of evaluate: pop the right operand and the
\* operator, apply it (a binary operator pops its left operand too) and push
\* the result.  pop( ) of an empty vector is undefined behaviour ("UB").
reduce_top(operand_stack, operator_stack) ==
  IF operand_stack = << >> THEN Throw("UB")
  ELSE
    LET rhs           == Last(operand_stack)
        rest          == Front(operand_stack)
        prev_operator == Last(operator_stack)
        left          == IF prev_operator \in UnaryOperatorNames THEN rest ELSE Front(rest)
    IN  Then(IF prev_operator \in UnaryOperatorNames THEN unary_NEG(rhs)
             ELSE IF prev_operator \in BinaryOperatorNames
                  THEN IF rest = << >> THEN Throw("UB")
                       ELSE apply_binary_operator(prev_operator, Last(rest), rhs)
             ELSE Throw("SYNTAX"),
             LAMBDA result :
               Ok([operand_stack  |-> Append(left, result),
                   operator_stack |-> Front(operator_stack)]))

\* while( !is_higher_precedence( current_operator ) ) reduce
RECURSIVE reduce_while(_, _, _)
reduce_while(current_operator, operand_stack, operator_stack) ==
  IF is_higher_precedence(current_operator, operator_stack)
  THEN Ok([operand_stack |-> operand_stack, operator_stack |-> operator_stack])
  ELSE Then(reduce_top(operand_stack, operator_stack), LAMBDA r :
            reduce_while(current_operator, r.operand_stack, r.operator_stack))

\* "finish stacks": the tail of evaluate after the text is consumed.
RECURSIVE finish_stacks(_, _)
finish_stacks(operand_stack, operator_stack) ==
  IF operator_stack # << >>
  THEN Then(reduce_top(operand_stack, operator_stack), LAMBDA r :
            finish_stacks(r.operand_stack, r.operator_stack))
  ELSE IF operand_stack = << >> THEN Ok(EMPTY_BASIC_VALUE)
  ELSE IF Len(operand_stack) > 1 THEN Throw("SYNTAX")
  ELSE Ok(operand_stack[1])

\* The positions of the commas of a parameter list that lie outside quotes.
RECURSIVE comma_positions(_, _)
comma_positions(value, pos) ==
  IF pos >= Len(value) THEN Ok(<< >>)
  ELSE IF CharAt(value, pos) = "\""
       THEN Then(find_end_of_string(substr_from(value, pos)), LAMBDA eos :
                 comma_positions(value, pos + eos + 1))
  ELSE Then(comma_positions(value, pos + 1), LAMBDA more :
            IF CharAt(value, pos) = "," THEN Ok(<< pos >> \o more) ELSE Ok(more))

RECURSIVE evaluate(_, _)
RECURSIVE evaluate_from(_, _, _, _, _)
RECURSIVE evaluate_each(_, _, _, _)
RECURSIVE evaluate_parameters(_, _)

\* The second loop of evaluate_parameters: evaluate the text between commas.
evaluate_each(e, value, start, comma_pos) ==
  IF comma_pos = << >> THEN Ok(<< >>)
  ELSE LET current_end == comma_pos[1] IN
       Then(evaluate(e, substr(value, start, current_end - start)), LAMBDA eval :
       Then(evaluate_each(e, value, current_end + 1, Tail(comma_pos)), LAMBDA more :
            Ok(<< eval >> \o more)))

\* evaluate_parameters: the values of a comma-separated parameter list.
evaluate_parameters(e, text) ==
  Bind(remove_outer_bracket(text), LAMBDA value :
    IF value = "" THEN Ok(<< >>)
    ELSE Then(comma_positions(value, 0), LAMBDA commas :
              evaluate_each(e, value, 0, Append(commas, Len(value)))))

\* split_arrayfunction_from_string( name, false ): the name before the first
\* bracket and the values of the parameters between it and the last bracket.
split_arrayfunction_from_string(e, name) ==
  LET bracket_pos == find_first_of(name, "(")
      count(ch)   == Cardinality({p \in 0..(Len(name) - 1) : CharAt(name, p) = ch})
      bracket_end == find_last_of(name, ")")
  IN  IF bracket_pos = npos THEN Ok([first |-> name, second |-> << >>])
      ELSE IF count("(") # count(")") THEN Throw("SYNTAX")
      ELSE Then(evaluate_parameters(e, substr(name, bracket_pos + 1,
                                              bracket_end - bracket_pos - 1)),
                LAMBDA param_values :
                  Ok([first |-> substr(name, 0, bracket_pos), second |-> param_values]))

\* The default branch of evaluate: the value of the operand current_operand.
evaluate_operand(e, current_operand) ==
  Then(split_arrayfunction_from_string(e, current_operand), LAMBDA split_operand :
    IF 0 < Len(split_operand.second)
    THEN IF is_function(e, split_operand.first)
         THEN exec_builtin(to_upper_copy(split_operand.first), split_operand.second)
         ELSE IF is_array(e, split_operand.first)
         THEN Bind(get_array_variable(e, split_operand.first, split_operand.second),
                   LAMBDA cell :
                     IF cell.err # "" THEN Throw(cell.err)
                     ELSE Ok(deref_value(cell.e, cell.v)))
         ELSE Throw("SYNTAX")
    ELSE IF is_variable(e, split_operand.first)
         THEN get_variable_constant(e, split_operand.first)
    ELSE Bind(get_value_type(current_operand), LAMBDA value_type :
           IF value_type = "INTEGER"
           THEN Then(to_integer(current_operand), LAMBDA n : Ok(basic_value_integer(n)))
           ELSE IF value_type = "REAL" THEN Ok(basic_value_real(current_operand))
           ELSE Throw("SYNTAX")))

\* The token loop of evaluate from current_position.
evaluate_from(e, value, current_position, operand_stack, operator_stack) ==
  LET end  == Len(value) - 1
      c0   == CharAt(value, current_position)
      current_char == IF c0 = "a" THEN "A" ELSE IF c0 = "o" THEN "O" ELSE c0
      is_operator ==
        \/ current_char \in {"%", "^", "*", "/", "+", "-", "<", ">", "="}
        \/ current_char = "A" /\ is_logical_and(value, current_position, end)
        \/ current_char = "O" /\ is_logical_or(value, current_position, end)
  IN
  IF current_position > end THEN finish_stacks(operand_stack, operator_stack)
  ELSE IF current_char = "\"" THEN
    LET current_operand == substr_from(value, current_position) IN
    Then(find_end_of_string(current_operand), LAMBDA end_of_string :
      LET text == replace_escaped_quotes(
                    remove_outer_quotes(substr(current_operand, 0, end_of_string + 1)))
      IN  evaluate_from(e, value, current_position + end_of_string + 1,
                        Append(operand_stack, basic_value_string(remove_outer_quotes(text))),
                        operator_stack))
  ELSE IF current_char = "(" THEN
    LET text_in_bracket == substr_from(value, current_position + 1) IN
    Then(find_end_of_bracket(text_in_bracket), LAMBDA end_of_bracket :
    Then(evaluate(e, substr(text_in_bracket, 0, end_of_bracket)), LAMBDA evaluated_bracket :
         evaluate_from(e, value, current_position + end_of_bracket + 2,
                       Append(operand_stack, evaluated_bracket), operator_stack)))
  ELSE IF current_char \in {" ", "\t"} THEN
    LET run_end == CHOOSE p \in current_position..(end + 1) :
                     /\ \A q \in (current_position + 1)..p : CharAt(value, q) \in {" ", "\t"}
                     /\ CharAt(value, p + 1) \notin {" ", "\t"}
    IN  evaluate_from(e, value, run_end + 1, operand_stack, operator_stack)
  ELSE IF is_operator THEN
    LET is_neg == /\ current_char = "-"
                  /\ \/ operator_stack = << >> /\ operand_stack = << >>
                     \/ operator_stack # << >> /\ Len(operand_stack) % 2 = 1
        with_eq == current_char \in {">", "<"} /\ CharAt(value, current_position + 1) = "="
        current_operator ==
          IF is_neg THEN "NEG"
          ELSE IF with_eq THEN current_char \o "="
          ELSE IF current_char = "A" THEN "AND"
          ELSE IF current_char = "O" THEN "OR"
          ELSE current_char
        position == IF with_eq THEN current_position + 1
                    ELSE IF current_char = "A" THEN current_position + 2
                    ELSE IF current_char = "O" THEN current_position + 1
                    ELSE current_position
    IN  IF current_char \in {">", "<"} /\ current_position >= end THEN Throw("SYNTAX")
        ELSE Then(reduce_while(current_operator, operand_stack, operator_stack), LAMBDA r :
                  evaluate_from(e, value, position + 1, r.operand_stack,
                                Append(r.operator_stack, current_operator)))
  ELSE
    LET rest == substr_from(value, current_position) IN
    Then(find_end_of_operand(rest), LAMBDA end_of_operand :
    Then(evaluate_operand(e, substr(rest, 0, end_of_operand + 1)), LAMBDA operand :
         evaluate_from(e, value, current_position + end_of_operand + 1,
                       Append(operand_stack, operand), operator_stack)))

\* Basic::evaluate: the value of an expression, by a shunting-yard over an
\* operand stack and an operator stack.
evaluate(e, value) == evaluate_from(e, value, 0, << >>, << >>)

\* ------------------------------------------------------------------------
\* The engine: class Basic
\* ------------------------------------------------------------------------

EmptyMap == [name \in {} |-> EMPTY_BASIC_VALUE]

\* clear_program( ): the store holds the sentinel alone.
clear_program == << [first |-> 0 - 1, second |-> ""] >>

\* Basic::Basic( ) and init( ).  Iterators into m_program are offsets from
\* begin( ), so that end( ) is Len(m_program); m_basic is << >> for nullptr and
\* << child >> when it owns the engine that RUN created.
Basic ==
  [m_run_mode         |-> "IMMEDIATE",
   m_program          |-> clear_program,
   m_program_it       |-> 0,
   m_program_stack    |-> << >>,
   m_has_syntax_error |-> FALSE,
   m_exiting          |-> FALSE,
   m_basic            |-> << >>,
   m_variables        |-> EmptyMap,
   m_arrays           |-> EmptyMap,
   m_functions        |-> FunctionNames,
   m_keywords         |-> KeywordNames,
   m_constants        |-> ("TRUE" :> basic_value_boolean(TRUE))
                            @@ ("FALSE" :> basic_value_boolean(FALSE))
                            @@ ("PI" :> basic_value_real("PI"))]

end(e) == Len(e.m_program)

\* *it for an iterator it of m_program other than end( ).
deref(e, it) == e.m_program[it + 1]

\* find_line: the iterator of the first line numbered line_number, or end( ).
find_line(e, line_number) ==
  IF \E i \in 0..(end(e) - 1) : deref(e, i).first = line_number
  THEN CHOOSE i \in 0..(end(e) - 1) :
         /\ deref(e, i).first = line_number
         /\ \A j \in 0..(i - 1) : deref(e, j).first # line_number
  ELSE end(e)

\* add_line: append the line, or replace the text of the line already there.
add_line(e, line_number, line) ==
  LET pos == find_line(e, line_number) IN
  IF pos = end(e)
  THEN [e EXCEPT !.m_program = Append(@, [first |-> line_number, second |-> line])]
  ELSE [e EXCEPT !.m_program[pos + 1].second = line]

\* remove_line: erase the line numbered line_number, if there is one.
remove_line(e, line_number) ==
  LET pos == find_line(e, line_number) IN
  IF pos # end(e)
  THEN [e EXCEPT !.m_program = SubSeq(@, 1, pos) \o SubSeq(@, pos + 2, Len(@))]
  ELSE e

\* A store that is left in the order its lines were entered in.
sort_program_code_skipped(e) == e

\* std::sort by line number; the line numbers of a store are distinct.
RECURSIVE sorted_by_first(_)
sorted_by_first(program) ==
  IF program = << >> THEN << >>
  ELSE LET i == CHOOSE i \in 1..Len(program) :
                  \A j \in 1..Len(program) : program[i].first <= program[j].first
       IN  << program[i] >> \o
           sorted_by_first(SubSeq(program, 1, i - 1) \o SubSeq(program, i + 1, Len(program)))

sort_program_code(e) == [e EXCEPT !.m_program = sorted_by_first(@)]

\* The outcome of a member function that can throw after it changed the
\* engine: the engine it leaves, the kind thrown ("" for none), the value it
\* returned, what it wrote to std::cout, and the kinds of the exceptions that
\* calls of parse_line nested in it caught.
Done(e, result) ==
  [e |-> e, err |-> "", result |-> result, cout |-> << >>, caught |-> << >>]
Raise(e, kind) ==
  [e |-> e, err |-> kind, result |-> FALSE, cout |-> << >>, caught |-> << >>]

\* In a member function of the engine e: the call r of a function that
\* returns a value, and the rest F of the member function.  If r threw, the
\* exception leaves the member function with the engine as it then is.
Try(e, r, F(_)) == IF r.err # "" THEN Raise(e, r.err) ELSE F(r.v)

\* set_program_it( line_number, offset )
set_program_it(e, line_number, offset) ==
  Bind(sort_program_code(e), LAMBDA sorted :
  Bind(find_line(sorted, line_number) + offset, LAMBDA line_it :
    IF line_it = end(sorted) THEN Raise(sorted, "SYNTAX")
    ELSE IF line_it < 0 \/ line_it > end(sorted) THEN Raise(sorted, "UB")
    ELSE Done([sorted EXCEPT !.m_program_it = line_it], TRUE)))

\* first_line( )
first_line(e) == 1

\* remove_variable( name, true ): the variable found under the upper-cased
\* name is erased.
remove_variable(e, name) ==
  IF to_upper_copy(name) \notin DOMAIN e.m_variables THEN Thrown(e, "SYNTAX")
  ELSE Returned([e EXCEPT !.m_variables =
                   [n \in (DOMAIN @) \ {to_upper_copy(name)} |-> @[n]]], 0)

\* add_variable( name, value ): the checks upper-case the name, the store
\* is made under the name as it was given.
add_variable(e, name, value) ==
  IF is_constant(e, name) THEN Thrown(e, "SYNTAX")
  ELSE IF is_function(e, name) \/ is_keyword(e, name) THEN Thrown(e, "SYNTAX")
  ELSE Returned([e EXCEPT !.m_variables = (name :> value) @@ @], 0)

\* add_array_variable( name, dimensions )
add_array_variable(e, name, dimensions) ==
  IF is_constant(e, name) THEN Thrown(e, "SYNTAX")
  ELSE IF is_function(e, name) \/ is_keyword(e, name) THEN Thrown(e, "SYNTAX")
  ELSE Bind(convert_dimensions(dimensions), LAMBDA sizes :
         IF sizes.err # "" THEN Thrown(e, sizes.err)
         ELSE Bind(BasicArray(sizes.v), LAMBDA array :
                IF array.err # "" THEN Thrown(e, array.err)
                ELSE Returned([e EXCEPT !.m_arrays = (name :> array.v) @@ @], 0)))

\* add_constant( name, description, value ): a variable found under the
\* upper-cased name goes, the constant is bound under the name as given.
add_constant(e, name, value) ==
  IF is_function(e, name) \/ is_keyword(e, name) THEN Thrown(e, "SYNTAX")
  ELSE Bind(IF key_exists(DOMAIN e.m_variables, name) THEN remove_variable(e, name).e
            ELSE e,
            LAMBDA removed :
              Returned([removed EXCEPT !.m_constants = (name :> value) @@ @], 0))

\* add_function( name, description, func ): m_functions is kept as the set
\* of its keys, each function being known by its name.
add_function(e, name) ==
  IF is_keyword(e, name) THEN Thrown(e, "FATAL")
  ELSE Returned([e EXCEPT !.m_functions = @ \cup {name}], 0)

\* get_variable( name ): the cell of an array for a name with a bracket,
\* else retrieve_value, which upper-cases the name and whose operator[]
\* creates an Empty variable when there is none.
get_variable(e, name) ==
  LET brackets_start == find_first_of(name, "(")
      key            == to_upper_copy(name)
  IN  IF brackets_start # npos
      THEN Bind(find_end_of_bracket(substr_from(name, brackets_start)),
             LAMBDA brackets_end :
               IF brackets_end.err # "" THEN Thrown(e, brackets_end.err)
               ELSE Bind(evaluate_parameters(e, substr(name, brackets_start + 1,
                                                       brackets_end.v - 1)),
                      LAMBDA params :
                        IF params.err # "" THEN Thrown(e, params.err)
                        ELSE get_array_variable(e, substr(name, 0, brackets_start),
                                                params.v)))
      ELSE IF key \in DOMAIN e.m_variables THEN Returned(e, variable_ref(key))
      ELSE Returned([e EXCEPT !.m_variables = (key :> EMPTY_BASIC_VALUE) @@ @],
                    variable_ref(key))

\* let_helper without its test for the names of built-in symbols.
let_helper_unchecked(e, parse_string, show_error) ==
  Bind(split_in_two_on_char(parse_string, "="), LAMBDA parsed_string :
    IF Len(parsed_string) # 2
    THEN IF show_error THEN Raise(e, "SYNTAX") ELSE Done(e, FALSE)
    ELSE Bind(get_variable(e, parsed_string[1]), LAMBDA var :
         IF var.err # "" THEN Raise(var.e, var.err)
         ELSE Try(var.e, evaluate(var.e, parsed_string[2]), LAMBDA value :
                Done(assign_value(var.e, var.v, value), TRUE))))

\* let_helper( parse_string, show_error ): the assignment  name = expression.
let_helper(e, parse_string, show_error) ==
  Bind(split_in_two_on_char(parse_string, "="), LAMBDA parsed_string :
    IF Len(parsed_string) # 2
    THEN IF show_error THEN Raise(e, "SYNTAX") ELSE Done(e, FALSE)
    ELSE IF is_function(e, parsed_string[1]) \/ is_keyword(e, parsed_string[1])
            \/ is_constant(e, parsed_string[1])
         THEN IF show_error THEN Raise(e, "SYNTAX") ELSE Done(e, FALSE)
    ELSE Bind(get_variable(e, parsed_string[1]), LAMBDA var :
         IF var.err # "" THEN Raise(var.e, var.err)
         ELSE Try(var.e, evaluate(var.e, parsed_string[2]), LAMBDA value :
                Done(assign_value(var.e, var.v, value), TRUE))))

\* ------------------------------------------------------------------------
\* Statement dispatch: parse_line and the keyword handlers
\* ------------------------------------------------------------------------

\* r, with cout and caught of the calls that ran before it put in front.
After(before, r) ==
  [r EXCEPT !.cout = before.cout \o @, !.caught = before.caught \o @]

\* The least element of a nonempty set of positions.
first_of(positions) == CHOOSE p \in positions : \A q \in positions : p <= q

\* The colon scan of parse_line from pos: the statements of parse_string,
\* cut at the colons outside quotes.  The character after a colon is stepped
\* over without being looked at.  The scan steps over every other character,
\* so it is taken from one quote or colon to the next.
RECURSIVE split_statements(_, _, _)
split_statements(parse_string, pos, last_pos) ==
  LET stops == {p \in pos..(Len(parse_string) - 1) : CharAt(parse_string, p) \in {"\"", ":"}}
  IN
  IF pos >= Len(parse_string)
  THEN Ok(<< substr(parse_string, last_pos, pos - last_pos) >>)
  ELSE IF stops = {}
  THEN Ok(<< substr(parse_string, last_pos, Len(parse_string) - last_pos) >>)
  ELSE Bind(first_of(stops), LAMBDA stop :
         IF CharAt(parse_string, stop) = "\""
         THEN Then(find_end_of_string(substr_from(parse_string, stop)), LAMBDA eos :
                   split_statements(parse_string, stop + eos + 1, last_pos))
         ELSE LET next == IF stop + 1 < Len(parse_string) THEN stop + 1 ELSE stop IN
              Then(split_statements(parse_string, next + 1, next), LAMBDA more :
                   Ok(<< substr(parse_string, last_pos, stop - last_pos) >> \o more)))

\* The lambda is_then_goto of m_keywords["IF"].  The bound of the test is the
\* character code parse_string[pos], and the loop returns inside its first
\* pass that passes the test.
is_then_goto(parse_string, pos) ==
  LET fits(string_to_find) ==
        pos + Len(string_to_find) < Ord(CharAt(parse_string, pos))
      same(string_to_find) ==
        to_upper_copy(substr(parse_string, pos, Len(string_to_find))) = string_to_find
  IN  IF fits("THEN") THEN same("THEN")
      ELSE IF fits("GOTO") THEN same("GOTO")
      ELSE FALSE

\* The scan of m_keywords["IF"] for the end of the condition, from pos.  It
\* steps over a character that is no quote and no bracket and where
\* is_then_goto fails, so it is taken from one of the others to the next.
RECURSIVE start_of_thengoto_clause(_, _)
start_of_thengoto_clause(parse_string, pos) ==
  LET stops == {p \in pos..(Len(parse_string) - 1) :
                  \/ CharAt(parse_string, p) \in {"\"", "("}
                  \/ is_then_goto(parse_string, p)}
  IN
  IF stops = {} THEN Ok(npos)
  ELSE Bind(first_of(stops), LAMBDA stop :
         IF CharAt(parse_string, stop) = "\""
         THEN Then(find_end_of_string(substr_from(parse_string, stop)), LAMBDA eos :
                   start_of_thengoto_clause(parse_string, stop + eos + 1))
         ELSE IF CharAt(parse_string, stop) = "("
         THEN Then(find_end_of_bracket(substr_from(parse_string, stop)), LAMBDA eob :
                   start_of_thengoto_clause(parse_string, stop + eob + 1))
         ELSE Ok(stop))

\* A GOTO that places the cursor on the line it names.
keyword_GOTO_on_line(e, parse_string) ==
  IF e.m_run_mode = "IMMEDIATE" THEN Raise(e, "SYNTAX")
  ELSE IF get_value_type(parse_string) # "INTEGER" THEN Raise(e, "SYNTAX")
  ELSE Try(e, to_integer(parse_string), LAMBDA line_number :
           set_program_it(e, line_number, 0))

\* m_keywords["GOTO"]
keyword_GOTO(e, parse_string) ==
  IF e.m_run_mode = "IMMEDIATE" THEN Raise(e, "SYNTAX")
  ELSE IF get_value_type(parse_string) # "INTEGER" THEN Raise(e, "SYNTAX")
  ELSE Try(e, to_integer(parse_string), LAMBDA line_number :
           set_program_it(e, line_number, 0 - 1))

\* A GOSUB that pushes nothing.
keyword_GOSUB_without_push(e, parse_string) ==
  IF e.m_run_mode = "IMMEDIATE" THEN Raise(e, "SYNTAX")
  ELSE keyword_GOTO(e, parse_string)

\* m_keywords["GOSUB"]
keyword_GOSUB(e, parse_string) ==
  IF e.m_run_mode = "IMMEDIATE" THEN Raise(e, "SYNTAX")
  ELSE keyword_GOTO([e EXCEPT !.m_program_stack = Append(@, e.m_program_it)], parse_string)

\* A RETURN that takes the oldest entry of the return stack.
keyword_RETURN_to_oldest(e, parse_string) ==
  IF e.m_run_mode = "IMMEDIATE" THEN Raise(e, "SYNTAX")
  ELSE IF e.m_program_stack = << >> THEN Raise(e, "SYNTAX")
  ELSE LET it     == Head(e.m_program_stack)
           popped == [e EXCEPT !.m_program_stack = Tail(@)]
       IN  IF it >= end(e) THEN Raise(popped, "UB")
           ELSE set_program_it(popped, deref(e, it).first, 0)

\* m_keywords["RETURN"]
keyword_RETURN(e, parse_string) ==
  IF e.m_run_mode = "IMMEDIATE" THEN Raise(e, "SYNTAX")
  ELSE IF e.m_program_stack = << >> THEN Raise(e, "SYNTAX")
  ELSE LET it     == Last(e.m_program_stack)
           popped == [e EXCEPT !.m_program_stack = Front(@)]
       IN  IF it >= end(e) THEN Raise(popped, "UB")
           ELSE set_program_it(popped, deref(e, it).first, 0)

\* m_keywords["STOP"]
keyword_STOP(e, parse_string) ==
  IF e.m_run_mode = "IMMEDIATE" THEN Raise(e, "SYNTAX")
  ELSE IF e.m_program_it >= end(e) THEN Raise(e, "UB")
  ELSE [Done([e EXCEPT !.m_exiting = TRUE], TRUE) EXCEPT
          !.cout = << "BREAK IN " \o integer_to_string(deref(e, e.m_program_it).first) >>]

\* m_keywords["END"]
keyword_END(e, parse_string) ==
  IF e.m_run_mode = "IMMEDIATE" THEN Raise(e, "SYNTAX")
  ELSE Done([e EXCEPT !.m_exiting = TRUE], TRUE)

\* A QUIT that says good bye and leaves the exiting flag alone.
keyword_QUIT_without_flag(e, parse_string) ==
  [Done(e, TRUE) EXCEPT !.cout = << "Good bye", "" >>]

\* m_keywords["QUIT"]
keyword_QUIT(e, parse_string) ==
  [Done([e EXCEPT !.m_exiting = TRUE], TRUE) EXCEPT !.cout = << "Good bye", "" >>]

\* m_keywords["EXIT"]
keyword_EXIT(e, parse_string) == Done([e EXCEPT !.m_exiting = TRUE], TRUE)

\* m_keywords["DELETE"]
keyword_DELETE(e, parse_string) ==
  IF get_value_type(parse_string) # "INTEGER" THEN Raise(e, "SYNTAX")
  ELSE Try(e, to_integer(parse_string), LAMBDA line_number :
           Done(remove_line(e, line_number), TRUE))

\* m_keywords["LIST"]
keyword_LIST(e, parse_string) ==
  Bind(sort_program_code(e), LAMBDA sorted :
  Bind(SelectSeq(sorted.m_program, LAMBDA current_line : 0 <= current_line.first),
       LAMBDA shown :
         [Done(sorted, TRUE) EXCEPT
            !.cout = [i \in 1..Len(shown) |->
                        integer_to_string(shown[i].first) \o "\t" \o shown[i].second]
                     \o << "" >>]))

\* m_keywords["PRINT"]
keyword_PRINT(e, parse_string) ==
  IF trim_copy(parse_string) = "" THEN [Done(e, TRUE) EXCEPT !.cout = << "" >>]
  ELSE Try(e, evaluate(e, trim_copy(parse_string)), LAMBDA value :
           [Done(e, TRUE) EXCEPT !.cout = << value_to_string(value) >>])

\* m_keywords["DIM"]
keyword_DIM(e, parse_string) ==
  Bind(split_in_two_on_char(parse_string, "("), LAMBDA var_name_and_param :
    IF Len(var_name_and_param) # 2 THEN Raise(e, "SYNTAX")
    ELSE Try(e, find_end_of_bracket(var_name_and_param[2]), LAMBDA bracket_end :
         Try(e, evaluate_parameters(e, substr(var_name_and_param[2], 0, bracket_end)),
           LAMBDA params :
             IF 2 < Len(params) \/ 1 > Len(params) THEN Raise(e, "SYNTAX")
             ELSE Bind(to_upper_copy(trim_copy(var_name_and_param[1])), LAMBDA var_name :
                    IF is_keyword(e, var_name) \/ is_function(e, var_name)
                       \/ is_constant(e, var_name)
                    THEN Raise(e, "SYNTAX")
                    ELSE IF ~is_variable(e, var_name) /\ is_array(e, var_name)
                    THEN Raise(e, "SYNTAX")
                    ELSE Bind(IF is_variable(e, var_name)
                              THEN remove_variable(e, var_name).e ELSE e,
                              LAMBDA removed :
                         Bind(add_array_variable(removed, var_name, params),
                              LAMBDA added :
                                IF added.err # "" THEN Raise(added.e, added.err)
                                ELSE Done(added.e, TRUE)))))))

\* m_keywords["NEW"]: reset( )
\* m_keywords["NEW"] with a reset( ) that leaves the program as it is.
keyword_NEW_keeping_program(e, parse_string) ==
  Done([e EXCEPT !.m_basic = << Basic >>, !.m_variables = EmptyMap], TRUE)

keyword_NEW(e, parse_string) ==
  Done([e EXCEPT !.m_basic = << Basic >>, !.m_program = clear_program,
                 !.m_variables = EmptyMap], TRUE)

\* m_keywords["CLR"]
keyword_CLR(e, parse_string) ==
  IF parse_string = "" THEN Done([e EXCEPT !.m_variables = EmptyMap], TRUE)
  ELSE IF to_upper_copy(parse_string) \notin DOMAIN e.m_variables THEN Raise(e, "SYNTAX")
  ELSE Done([e EXCEPT !.m_variables =
                [n \in (DOMAIN @) \ {to_upper_copy(parse_string)} |-> @[n]]], TRUE)

RECURSIVE parse_line(_, _, _, _)
RECURSIVE run_statements(_, _, _, _)

\* m_keywords["IF"]
keyword_IF(e, parse_string, reads, depth) ==
  Try(e, start_of_thengoto_clause(parse_string, 0), LAMBDA start :
    IF start = npos THEN Raise(e, "SYNTAX")
    ELSE Try(e, evaluate(e, substr(parse_string, 0, start)), LAMBDA condition :
         Try(e, to_boolean(condition), LAMBDA holds :
           IF holds
           THEN Bind(substr_from(parse_string, start + 4), LAMBDA str_action :
                  parse_line(e, IF get_value_type(str_action) = "INTEGER"
                                THEN "GOTO " \o str_action ELSE str_action,
                             reads, depth + 1))
           ELSE Done(e, TRUE))))

\* ------------------------------------------------------------------------
\* The listings of VARS, FUNCTIONS and KEYWORDS
\* ------------------------------------------------------------------------

\* The description each function is registered with by init( ); a function
\* that operator[] made has none.
function_description(name) ==
  CASE name = "COS" ->
         "COS( Angle ) -> Returns the cosine of angle in radians"
    [] name = "SIN" ->
         "SIN( Angle ) -> Returns the sine of angle in radians"
    [] name = "TAN" ->
         "TAN( Angle ) -> Returns the tangent of angle in radians"
    [] name = "ATN" ->
         "ATN( Angle ) -> Returns the arctangent of angle in radians"
    [] name = "EXP" ->
         "EXP( Exponent ) -> Resturn e raised to the power of exponent. Where e = 2.71828183..."
    [] name = "LOG" ->
         "LOG( x ) -> Returns the natural logarithm of x"
    [] name = "SQR" ->
         "SQR( x ) -> Returns the square root of x"
    [] name = "SQUARE" ->
         "SQUARE( x ) -> Returns x squared"
    [] name = "ABS" ->
         "ABS( x ) -> Returns the absolute value of x"
    [] name = "SGN" ->
         "SGN( x ) -> Returns the sign of x ( -1 for negative, 0 for 0, and 1 for positive)"
    [] name = "INT" ->
         "INT( x ) -> Returns x truncated to the greatest integer less or equal"
    [] name = "RND" ->
         "RND( [s] ) -> Returns a random number between 0.0 and 1.0.  An optional seed can be specified"
    [] name = "NEG" ->
         "NEG( x ) -> Returns the negated number"
    [] name = "POW" ->
         "POW( base, exponent ) -> Returns base raised to the power exponent"
    [] name = "NOT" ->
         "Boolean negation"
    [] name = "LEN" ->
         "LEN( s ) -> Returns the length of string s"
    [] name = "LEFT$" ->
         "LEFT$( string, len ) -> Returns the left side of the string up to len characters long"
    [] name = "RIGHT$" ->
         "RIGHT$( string, len ) -> Returns the right side of the string up to len characters long"
    [] name = "MID$" ->
         "MID$( string, start, len ) -> Returns the middle of the string from start up to len characters long"
    [] name = "STR$" ->
         "STR$( x ) -> Converts a number to a string"
    [] name = "VAL" ->
         "VAL( s ) -> Converts a string to a number"
    [] name = "ASC" ->
         "ASC( s ) -> Returns the ASCII code of the first character of a string"
    [] name = "CHR$" ->
         "CHR$( x ) -> Returns a string with the character of the specified ASCII code"
    [] OTHER -> ""

\* The description of a constant: those of init( ) and of run( ).
constant_description(name) ==
  CASE name = "PI" -> "Trigometric Pi value"
    [] name = "CURRENT_LINE" -> "Current Line of program execution"
    [] OTHER -> ""

value_type_to_string(value_type) ==
  CASE value_type = "BOOLEAN" -> "Boolean"
    [] value_type = "EMPTY"   -> "Empty"
    [] value_type = "INTEGER" -> "Integer"
    [] value_type = "REAL"    -> "Real"
    [] value_type = "ARRAY"   -> "Array"
    [] value_type = "STRING"  -> "String"

\* std::sort of a vector that holds the strings of S.
RECURSIVE sorted_strings(_)
sorted_strings(S) ==
  IF S = {} THEN << >>
  ELSE Bind(CHOOSE x \in S : \A y \in S : string_compare(x, y) <= 0, LAMBDA least :
         << least >> \o sorted_strings(S \ {least}))

\* get_keys( m ) for a table with the keys S, sorted as every caller sorts
\* it: the vector is made with m.size( ) empty strings and the keys are
\* appended behind them.
get_keys(S) == [i \in 1..Cardinality(S) |-> ""] \o sorted_strings(S)

\* The table after operator[] was called with each of keys: a key that is
\* not there is inserted with a value-initialised entry.
with_keys(table, keys, empty) ==
  [k \in DOMAIN table \cup {keys[i] : i \in 1..Len(keys)} |->
     IF k \in DOMAIN table THEN table[k] ELSE empty]

\* get_variable( keys[n] ), for n from 1 on, in the engine the call before left.
RECURSIVE get_variables(_, _, _)
get_variables(e, keys, n) ==
  IF n > Len(keys) THEN e
  ELSE get_variables(get_variable(e, keys[n]).e, keys, n + 1)

\* The dimensions of an array as list_variables writes them.
RECURSIVE dimensions_to_string(_, _)
dimensions_to_string(dimensions, n) ==
  IF n > Len(dimensions) THEN ""
  ELSE (IF 1 < n THEN ", " ELSE "") \o integer_to_string(dimensions[n])
         \o dimensions_to_string(dimensions, n + 1)

\* list_functions( ): the engine it leaves and the lines of its text.
list_functions(e) ==
  Bind(get_keys(e.m_functions), LAMBDA keys :
    [e     |-> [e EXCEPT !.m_functions = @ \cup {keys[i] : i \in 1..Len(keys)}],
     lines |-> [i \in 1..Len(keys) |-> keys[i] \o ": " \o function_description(keys[i])]])

\* list_constants( )
list_constants(e) ==
  Bind(get_keys(DOMAIN e.m_constants), LAMBDA keys :
  Bind(with_keys(e.m_constants, keys, EMPTY_BASIC_VALUE), LAMBDA constants :
    [e     |-> [e EXCEPT !.m_constants = constants],
     lines |-> [i \in 1..Len(keys) |->
                  keys[i] \o ": " \o value_type_to_string(constants[keys[i]].first)
                    \o " = " \o value_to_string(constants[keys[i]])
                    \o ": " \o constant_description(keys[i])]]))

\* list_keywords( )
list_keywords(e) ==
  Bind(get_keys(e.m_keywords), LAMBDA keys :
    [e     |-> [e EXCEPT !.m_keywords = @ \cup {keys[i] : i \in 1..Len(keys)}],
     lines |-> keys])

\* list_variables( ): the variables through get_variable, then the arrays.
list_variables(e) ==
  Bind(get_keys(DOMAIN e.m_variables), LAMBDA keys :
  Bind(get_variables(e, keys, 1), LAMBDA read :
  Bind(get_keys(DOMAIN read.m_arrays), LAMBDA array_keys :
  Bind(with_keys(read.m_arrays, array_keys, [m_dimensions |-> << >>, m_values |-> << >>]),
       LAMBDA arrays :
    [e     |-> [read EXCEPT !.m_arrays = arrays],
     lines |-> [i \in 1..Len(keys) |->
                  keys[i] \o ": "
                    \o value_type_to_string(read.m_variables[to_upper_copy(keys[i])].first)
                    \o " = " \o value_to_string(read.m_variables[to_upper_copy(keys[i])])]
               \o [i \in 1..Len(array_keys) |->
                     array_keys[i] \o "( "
                       \o dimensions_to_string(arrays[array_keys[i]].m_dimensions, 1)
                       \o " )"]]))))

\* m_keywords["VARS"]
keyword_VARS(e, parse_string) ==
  Bind(list_constants(e), LAMBDA constants :
  Bind(list_variables(constants.e), LAMBDA variables :
    [Done(variables.e, TRUE) EXCEPT
       !.cout = << "Constants:" >> \o constants.lines \o << "" >>
                  \o << "", "Variables:" >> \o variables.lines \o << "" >>]))

\* m_keywords["FUNCTIONS"]
keyword_FUNCTIONS(e, parse_string) ==
  Bind(list_functions(e), LAMBDA functions :
    [Done(functions.e, TRUE) EXCEPT !.cout = functions.lines \o << "" >>])

\* m_keywords["KEYWORDS"]
keyword_KEYWORDS(e, parse_string) ==
  Bind(list_keywords(e), LAMBDA keywords :
    [Done(keywords.e, TRUE) EXCEPT !.cout = keywords.lines \o << "" >>])

\* m_keywords[keyword]( params ).  RUN and CONT drive the child engine's
\* run( ) loop, which the specifications take one pass at a time, and are
\* dispatched there.
exec_keyword(e, keyword, params, reads, depth) ==
  CASE keyword = "GOTO"   -> keyword_GOTO(e, params)
    [] keyword = "GOSUB"  -> keyword_GOSUB(e, params)
    [] keyword = "RETURN" -> keyword_RETURN(e, params)
    [] keyword = "STOP"   -> keyword_STOP(e, params)
    [] keyword = "END"    -> keyword_END(e, params)
    [] keyword = "QUIT"   -> keyword_QUIT(e, params)
    [] keyword = "EXIT"   -> keyword_EXIT(e, params)
    [] keyword = "DELETE" -> keyword_DELETE(e, params)
    [] keyword = "LIST"   -> keyword_LIST(e, params)
    [] keyword = "PRINT"  -> keyword_PRINT(e, params)
    [] keyword = "NEW"    -> keyword_NEW(e, params)
    [] keyword = "CLR"    -> keyword_CLR(e, params)
    [] keyword = "LET"    -> let_helper(e, params, TRUE)
    [] keyword = "DIM"    -> keyword_DIM(e, params)
    [] keyword = "REM"    -> Done(e, TRUE)
    [] keyword = "THEN"   -> Raise(e, "SYNTAX")
    [] keyword = "IF"     -> keyword_IF(e, params, reads, depth)
    [] keyword = "VARS"      -> keyword_VARS(e, params)
    [] keyword = "FUNCTIONS" -> keyword_FUNCTIONS(e, params)
    [] keyword = "KEYWORDS"  -> keyword_KEYWORDS(e, params)
    [] keyword = ""       -> Raise(e, "STD")
    [] OTHER              -> Raise(e, "UNMODELLED")

\* The loop of parse_line over the statements of a line.
run_statements(e, statements, reads, depth) ==
  IF statements = << >>
  THEN [Done(e, TRUE) EXCEPT
          !.cout = IF e.m_run_mode = "IMMEDIATE" THEN << "", "READY" >> ELSE << >>]
  ELSE Bind(Head(statements), LAMBDA current_statement :
       Bind(split_in_two_on_char(current_statement, " "), LAMBDA parsed_string :
       Bind(to_upper_copy(parsed_string[1]), LAMBDA keyword :
       Bind(IF ~is_keyword(e, keyword)
            THEN Bind(let_helper(e, current_statement, FALSE), LAMBDA assigned :
                   IF assigned.err = "" /\ ~assigned.result
                   THEN Raise(assigned.e, "SYNTAX") ELSE assigned)
            ELSE exec_keyword(e, keyword,
                              IF Len(parsed_string) = 2 THEN parsed_string[2] ELSE "",
                              reads, depth),
            LAMBDA r :
              IF r.err # "" THEN r
              ELSE IF r.e.m_exiting
                   THEN [r EXCEPT !.result = (r.e.m_run_mode # "IMMEDIATE")]
              ELSE IF ~r.result THEN r
              ELSE After(r, run_statements(r.e, Tail(statements), reads, depth))))))

\* The try block of a parse_line that takes a line number of either sign.
try_parse_line_any_number(e, parse_string, reads, depth) ==
  Bind(split_in_two_on_char(parse_string, " "), LAMBDA parsed_string :
  Bind(get_value_type(parsed_string[1]), LAMBDA value_type :
    IF value_type = "INTEGER"
    THEN Try(e, to_integer(parsed_string[1]), LAMBDA line_number :
           IF Len(parsed_string) > 1 /\ parsed_string[2] # ""
           THEN Done(add_line(e, line_number, parsed_string[2]), TRUE)
           ELSE Done(remove_line(e, line_number), TRUE))
    ELSE IF value_type = "STRING"
    THEN IF trim_copy(parse_string) = "" THEN Done(e, TRUE)
         ELSE Try(e, split_statements(parse_string, 0, 0), LAMBDA statements :
                run_statements(e, statements, reads, depth))
    ELSE Done(e, TRUE)))

\* The try block of parse_line.
try_parse_line(e, parse_string, reads, depth) ==
  Bind(split_in_two_on_char(parse_string, " "), LAMBDA parsed_string :
  Bind(get_value_type(parsed_string[1]), LAMBDA value_type :
    IF value_type = "INTEGER"
    THEN Try(e, to_integer(parsed_string[1]), LAMBDA line_number :
           IF 0 > line_number THEN Raise(e, "SYNTAX")
           ELSE IF Len(parsed_string) > 1 /\ parsed_string[2] # ""
                THEN Done(add_line(e, line_number, parsed_string[2]), TRUE)
                ELSE Done(remove_line(e, line_number), TRUE))
    ELSE IF value_type = "STRING"
    THEN IF trim_copy(parse_string) = "" THEN Done(e, TRUE)
         ELSE Try(e, split_statements(parse_string, 0, 0), LAMBDA statements :
                run_statements(e, statements, reads, depth))
    ELSE Done(e, TRUE)))

\* The value read from se.error_type in the catch of a parse_line nested
\* depth deep.  No constructor of BasicException stores its errorType
\* argument, so the member is indeterminate: reads gives the value each level
\* of nesting finds there.
error_type_read(reads, depth) == IF depth = 0 THEN reads[1] ELSE reads[2]

\* The catch clauses of parse_line, for the outcome r of the try block when
\* read is what the handler finds in se.error_type.  Neither case of its
\* switch returns for a value that is no enumerator, and the function ends
\* in  return true.
catch_clauses(r, read) ==
  LET ready == << "", "READY" >> IN
  IF r.err \in {"SYNTAX", "FATAL"}
  THEN IF read = "SYNTAX"
       THEN [e      |-> [r.e EXCEPT !.m_has_syntax_error = TRUE],
             err    |-> "", result |-> TRUE,
             cout   |-> r.cout \o ready, caught |-> Append(r.caught, r.err)]
       ELSE [e |-> r.e, err |-> "", result |-> (read # "FATAL"),
             cout |-> r.cout, caught |-> Append(r.caught, r.err)]
  ELSE IF r.err = "STD"
  THEN [e |-> r.e, err |-> "", result |-> FALSE,
        cout |-> r.cout, caught |-> Append(r.caught, r.err)]
  ELSE r

\* parse_line( parse_string ): the try block and its catch clauses.
parse_line(e, parse_string, reads, depth) ==
  catch_clauses(try_parse_line([e EXCEPT !.m_exiting = FALSE], parse_string, reads, depth),
                error_type_read(reads, depth))

\* m_keywords["RUN"] up to the loop of run( ): the program is sorted, the
\* child engine is made (or kept, for RUN without a line number), it gets a
\* copy of the program, and run( ) places its cursor.  first_line( ) of a
\* program without any line is an iterator past end( ).
run_enter(e, line_number) ==
  LET cleared == [e EXCEPT !.m_has_syntax_error = FALSE] IN
  IF 0 <= line_number THEN set_program_it(cleared, line_number, 0)
  ELSE IF first_line(cleared) > end(cleared) THEN Raise(cleared, "UB")
  ELSE Done([cleared EXCEPT !.m_program_it = first_line(cleared)], TRUE)

\* m_keywords["RUN"] with a child engine made with the variables and the
\* arrays of its parent.
keyword_RUN_with_symbols(e, parse_string) ==
  Bind(sort_program_code(e), LAMBDA sorted :
  Try(sorted, IF parse_string # "" /\ get_value_type(parse_string) = "INTEGER"
              THEN to_integer(parse_string) ELSE Ok(0 - 1),
      LAMBDA line_number :
        Bind(IF sorted.m_basic = << >> \/ 0 <= line_number
             THEN [Basic EXCEPT !.m_variables = sorted.m_variables,
                                !.m_arrays = sorted.m_arrays]
             ELSE sorted.m_basic[1],
             LAMBDA kept :
        Bind(run_enter([kept EXCEPT !.m_run_mode = "DEFERRED",
                                    !.m_program = sorted.m_program], line_number),
             LAMBDA r : [r EXCEPT !.e = [sorted EXCEPT !.m_basic = << r.e >>]]))))

keyword_RUN(e, parse_string) ==
  Bind(sort_program_code(e), LAMBDA sorted :
  Try(sorted, IF parse_string # "" /\ get_value_type(parse_string) = "INTEGER"
              THEN to_integer(parse_string) ELSE Ok(0 - 1),
      LAMBDA line_number :
        Bind(IF sorted.m_basic = << >> \/ 0 <= line_number THEN Basic ELSE sorted.m_basic[1],
             LAMBDA kept :
        Bind(run_enter([kept EXCEPT !.m_run_mode = "DEFERRED",
                                    !.m_program = sorted.m_program], line_number),
             LAMBDA r : [r EXCEPT !.e = [sorted EXCEPT !.m_basic = << r.e >>]]))))

\* A continue_run that enters run( ) at the line the cursor is on.
continue_run_on_line(e) ==
  IF e.m_program_it >= end(e) THEN Raise(e, "UB")
  ELSE run_enter(e, deref(e, e.m_program_it).first)

\* continue_run( ): run( ) entered at the line behind the cursor.  A cursor
\* at end( ) cannot be advanced.
continue_run(e) ==
  IF e.m_program_it >= end(e) THEN Raise(e, "UB")
  ELSE Bind(e.m_program_it + 1, LAMBDA next_line :
         IF end(e) = next_line THEN Raise(e, "SYNTAX")
         ELSE run_enter(e, deref(e, next_line).first))

\* m_keywords["CONT"], up to the loop of run( ).  m_basic is null until the
\* first RUN.
keyword_CONT(e, parse_string) ==
  IF e.m_run_mode = "DEFERRED" THEN Raise(e, "SYNTAX")
  ELSE IF e.m_basic = << >> THEN Raise(e, "UB")
  ELSE Bind(continue_run([e.m_basic[1] EXCEPT !.m_run_mode = "DEFERRED"]), LAMBDA r :
         [r EXCEPT !.e = [e EXCEPT !.m_basic = << r.e >>]])

\* One pass of the loop of run( ) with the cursor on a line: what the loop
\* does next is "loop" (the condition of the while is tested again and
\* holds), "true" or "false" (run returns that), or "UB".
\* One pass of the loop of run( ) with a loop that is left after the pass.
run_pass_and_leave(e, reads) ==
  LET current == deref(e, e.m_program_it) IN
  IF ~(0 <= current.first)
  THEN [e |-> e, does |-> "loop", cout |-> << >>, caught |-> << >>]
  ELSE Bind(parse_line(add_constant(e, "CURRENT_LINE", basic_value_integer(current.first)).e,
                       current.second, reads, 0),
            LAMBDA r :
       Bind(IF r.err # "" THEN << r.e, r.err >>
            ELSE IF ~r.result THEN << r.e, "false" >>
            ELSE IF r.e.m_has_syntax_error
                 THEN << [r.e EXCEPT !.m_has_syntax_error = FALSE], "true" >>
            ELSE IF r.e.m_exiting THEN << [r.e EXCEPT !.m_exiting = FALSE], "true" >>
            ELSE << [r.e EXCEPT !.m_program_it = @ + 1], "true" >>,
            LAMBDA out :
              [e |-> out[1], does |-> out[2], cout |-> r.cout, caught |-> r.caught]))

run_pass(e, reads) ==
  LET current == deref(e, e.m_program_it) IN
  IF ~(0 <= current.first)
  THEN [e |-> e, does |-> "loop", cout |-> << >>, caught |-> << >>]
  ELSE Bind(parse_line(add_constant(e, "CURRENT_LINE", basic_value_integer(current.first)).e,
                       current.second, reads, 0),
            LAMBDA r :
       Bind(IF r.err # "" THEN << r.e, r.err >>
            ELSE IF ~r.result THEN << r.e, "false" >>
            ELSE IF r.e.m_has_syntax_error
                 THEN << [r.e EXCEPT !.m_has_syntax_error = FALSE], "true" >>
            ELSE IF r.e.m_exiting THEN << [r.e EXCEPT !.m_exiting = FALSE], "true" >>
            ELSE IF r.e.m_program_it + 1 # end(r.e)
                 THEN << [r.e EXCEPT !.m_program_it = @ + 1], "loop" >>
            ELSE << [r.e EXCEPT !.m_program_it = @ + 1], "true" >>,
            LAMBDA out :
              [e |-> out[1], does |-> out[2], cout |-> r.cout, caught |-> r.caught]))

\* Basic::split( text, '\n' )
RECURSIVE split(_, _)
split(text, delimiter) ==
  LET pos == find_first_of(text, delimiter) IN
  IF pos = npos THEN << text >>
  ELSE << substr(text, 0, pos) >> \o split(substr_from(text, pos + 1), delimiter)

\* Basic::Basic( program_code ): the lines of program_code go through
\* parse_line one after the other.
RECURSIVE parse_lines(_, _)
parse_lines(e, lines) ==
  IF lines = << >> THEN e
  ELSE parse_lines(parse_line(e, Head(lines), << "SYNTAX", "SYNTAX" >>, 0).e, Tail(lines))

BasicOf(program_code) == parse_lines(Basic, split(program_code, "\n"))

\* ------------------------------------------------------------------------
\* The program store of the string_ref build (include/dawbasic.h)
\* ------------------------------------------------------------------------

\* There ProgramLine is std::pair<integer, boost::string_ref>: a stored line
\* owns no text, it refers to size characters at offset ptr of the buffer of
\* the std::string current_line of main( ), which every getline overwrites.

\* The character that stands for the terminating null of the buffer.
Terminator == "@"

\* std::getline( std::cin, current_line ): the characters typed replace the
\* contents from the front of the buffer, the terminator follows them, and
\* the bytes of the buffer behind that stay as they were.  (Every line of
\* the model fits the capacity a std::string has from the start, so that no
\* getline moves the buffer.)
getline(line, typed) ==
  [size |-> Len(typed),
   data |-> typed \o Terminator \o substr_from(line.data, Len(typed) + 1)]

\* The std::string value of current_line.
text_of(line) == substr(line.data, 0, line.size)

\* The characters a string_ref refers to, as operator<< reads them.
read_ref(line, ref) == substr(line.data, ref.ptr, ref.size)

\* trim( boost::string_ref )
trim_ref(line, ref) ==
  LET s == read_ref(line, ref)
      t == trim_copy(s)
      lead == IF t = "" THEN 0
              ELSE CHOOSE p \in 0..(Len(s) - 1) :
                     ~isspace(CharAt(s, p)) /\ \A q \in 0..(p - 1) : isspace(CharAt(s, q))
  IN  [ptr |-> ref.ptr + lead, size |-> Len(t)]

\* split_in_two_on_char( boost::string_ref, separator ): views of the halves.
split_in_two_on_char_ref(line, separator) ==
  LET whole == trim_ref(line, [ptr |-> 0, size |-> line.size])
      pos   == find_first_of(read_ref(line, whole), separator)
  IN  IF pos # npos
      THEN << trim_ref(line, [ptr |-> whole.ptr, size |-> pos]),
              trim_ref(line, [ptr |-> whole.ptr + pos + 1, size |-> whole.size - pos - 1]) >>
      ELSE << whole >>

\* add_line and remove_line of the string_ref build, on its m_program.
add_line_ref(program, line_number, ref) ==
  IF \E i \in 1..Len(program) : program[i].first = line_number
  THEN [i \in 1..Len(program) |->
          IF program[i].first = line_number /\ \A j \in 1..(i - 1) : program[j].first # line_number
          THEN [first |-> line_number, second |-> ref] ELSE program[i]]
  ELSE Append(program, [first |-> line_number, second |-> ref])

remove_line_ref(program, line_number) ==
  IF \E i \in 1..Len(program) : program[i].first = line_number
  THEN LET i == CHOOSE i \in 1..Len(program) :
                  program[i].first = line_number /\ \A j \in 1..(i - 1) : program[j].first # line_number
       IN  SubSeq(program, 1, i - 1) \o SubSeq(program, i + 1, Len(program))
  ELSE program

\* What parse_line of the string_ref build does to its m_program when line
\* is the text typed: a numbered line stores or removes, DELETE n removes,
\* LIST sorts.
parse_line_ref(program, line) ==
  LET parsed_string == split_in_two_on_char_ref(line, " ")
      head          == read_ref(line, parsed_string[1])
      rest          == IF Len(parsed_string) > 1 THEN read_ref(line, parsed_string[2]) ELSE ""
      number(t)     == get_value_type(t) = "INTEGER" /\ to_integer(t).err = ""
  IN  IF number(head) /\ to_integer(head).v >= 0
      THEN IF rest # "" THEN add_line_ref(program, to_integer(head).v, parsed_string[2])
           ELSE remove_line_ref(program, to_integer(head).v)
      ELSE IF to_upper_copy(head) = "DELETE" /\ number(rest)
      THEN remove_line_ref(program, to_integer(rest).v)
      ELSE IF to_upper_copy(head) = "LIST" THEN sorted_by_first(program)
      ELSE program

\* What m_keywords["LIST"] of the string_ref build prints for its m_program.
list_ref(program, line) ==
  LET sorted == sorted_by_first(program)
      shown  == SelectSeq(sorted, LAMBDA current_line : 0 <= current_line.first)
  IN  [i \in 1..Len(shown) |->
         integer_to_string(shown[i].first) \o "\t" \o read_ref(line, shown[i].second)]

\* ------------------------------------------------------------------------
\* State
\* ------------------------------------------------------------------------

VARIABLES
  b,              \* the engine of main( ); its m_basic owns the engine RUN made
  pc,             \* "idle": main( ) waits in getline; "running": inside the
                  \* loop of m_basic->run( ); "terminated": main( ) left its
                  \* loop; "undefined": the program ran into undefined behaviour
  current_line,   \* the text main( ) read last into its current_line
  current_line_ref, \* current_line of main( ) in the string_ref build: the
                  \* size of the string and the bytes of its buffer
  m_program_ref,  \* m_program of the engine in the string_ref build
  returned,       \* what the last call b.parse_line( current_line ) returned;
                  \* where evaluate is called by itself, what it returned
  cout,           \* what the last call or pass of the run loop printed
  caught,         \* the kinds the exceptions it caught were created with
  entered,        \* per line number, the text the line was last entered
                  \* with, or NoText when it was removed or never entered
  last_line,      \* the number of the program line the run loop dispatched last
  last_text,      \* and its text
  passes,         \* the parity of the number of passes of the run loop so far
  matched,        \* the number of the line whose GOSUB the RETURN of the last
                  \* pass returned from, or -1 when that pass made no such RETURN
  gosub_lines     \* the numbers of the lines whose GOSUB has not returned yet

vars == << b, pc, current_line, current_line_ref, m_program_ref, returned, cout, caught, entered,
           last_line, last_text, passes, matched, gosub_lines >>

NoText == "<none>"

\* The values an indeterminate ErrorTypes member can be read as: one of the
\* two enumerators, or a value that is neither.
ErrorTypeReads == {"SYNTAX", "FATAL", "OTHER"}

\* m_keywords["IF"] is the one handler that calls parse_line: a line without
\* IF has no nested catch, and what that would read is left out of the choice.
calls_parse_line(text) ==
  \E p \in 0..(Len(text) - 1) : to_upper_copy(substr(text, p, 2)) = "IF"

Reads(text) ==
  IF calls_parse_line(text) THEN ErrorTypeReads \X ErrorTypeReads
  ELSE ErrorTypeReads \X {"SYNTAX"}

\* What the catch of a parse_line nested in the dispatch of text can read.
NestedReads(text) == IF calls_parse_line(text) THEN ErrorTypeReads ELSE {"SYNTAX"}

\* ------------------------------------------------------------------------
\* The REPL of main( ): one pass of its loop per line typed
\* ------------------------------------------------------------------------

NumLines == 2
LineNumbers == {10 * i : i \in 1..NumLines}

\* Texts of program lines typed at the prompt.
LineTexts == {"REM", "PRINT 1"}

\* Statements typed at the prompt.
Statements ==
  {"LIST", "PRINT 1", "GOTO 10", "GOSUB 10", "RETURN", "END", "STOP",
   "PRINT 1 AND 2", "PRINT NOT(1)", "PRINT COS(\"A\")", "IF 1 THEN REM", "FOO",
   "QUIT:PRINT 1", "EXIT:PRINT 1", "EXIT"}

\* The state after b.parse_line( current_line ) ended as r says.
Parsed(r) ==
  /\ r.err \in {"", "UB"}
  /\ b' = r.e
  /\ returned' = r.result
  /\ cout' = r.cout
  /\ caught' = r.caught
  /\ pc' = IF r.err = "UB" THEN "undefined"
           ELSE IF r.result THEN "idle" ELSE "terminated"

\* One pass of the loop of main( ): getline reads typed into current_line,
\* b.parse_line( current_line ) runs, and main( ) leaves the loop when it
\* returns false.  parse_line is taken as its try block followed by its catch
\* clauses: a call whose try block throws nothing reads no error_type.
Type(typed) ==
  /\ pc = "idle"
  /\ current_line' = typed
  /\ \E nested \in NestedReads(typed) :
     \E try \in {try_parse_line([b EXCEPT !.m_exiting = FALSE], typed,
                                << "SYNTAX", nested >>, 0)} :
       IF try.err = "" THEN Parsed(try)
       ELSE \E read \in ErrorTypeReads : Parsed(catch_clauses(try, read))
  /\ UNCHANGED << current_line_ref, m_program_ref, last_line, last_text, passes, matched, gosub_lines >>

\* The user enters program line n with text t.
EnterLine ==
  \E n \in LineNumbers, t \in LineTexts :
    /\ Type(integer_to_string(n) \o " " \o t)
    /\ entered' = [entered EXCEPT ![n] = t]

\* The user enters a line number alone, which removes the line.
EnterNumber ==
  \E n \in LineNumbers :
    /\ Type(integer_to_string(n))
    /\ entered' = [entered EXCEPT ![n] = NoText]

\* The user enters DELETE n.
EnterDelete ==
  \E n \in LineNumbers :
    /\ Type("DELETE " \o integer_to_string(n))
    /\ entered' = [entered EXCEPT ![n] = NoText]

\* The user enters a statement for immediate execution.
EnterStatement ==
  \E s \in Statements :
    /\ Type(s)
    /\ UNCHANGED entered

Init ==
  /\ b = Basic
  /\ pc = "idle"
  /\ current_line = ""
  /\ current_line_ref = [size |-> 0, data |-> Terminator]
  /\ m_program_ref = << [first |-> 0 - 1, second |-> [ptr |-> 0, size |-> 0]] >>
  /\ returned = TRUE
  /\ cout = << >>
  /\ caught = << >>
  /\ entered = [n \in LineNumbers |-> NoText]
  /\ last_line = 0 - 1
  /\ last_text = ""
  /\ passes = FALSE
  /\ matched = 0 - 1
  /\ gosub_lines = << >>

Next == EnterLine \/ EnterNumber \/ EnterDelete \/ EnterStatement

\* A session at the prompt of the interpreter: program lines are entered
\* and removed, statements are executed immediately.
Spec == Init /\ [][Next]_vars

\* ------------------------------------------------------------------------
\* Properties of the session at the prompt
\* ------------------------------------------------------------------------

\* The numbers of a finite set in ascending order.
RECURSIVE ascending(_)
ascending(numbers) ==
  IF numbers = {} THEN << >>
  ELSE LET least == CHOOSE n \in numbers : \A m \in numbers : n <= m
       IN  << least >> \o ascending(numbers \ {least})

\* What LIST has to print for the lines entered so far: one entry per line
\* number that was entered and not removed since, with the text entered
\* last, by ascending line number.
ExpectedListing ==
  LET stored == ascending({n \in LineNumbers : entered[n] # NoText})
  IN  [i \in 1..Len(stored) |-> integer_to_string(stored[i]) \o "\t" \o entered[stored[i]]]

\* C1: after any sequence of numbered-line edits and DELETE commands, LIST
\* prints exactly the stored lines, in strictly ascending line-number order,
\* at most one entry per line number (re-entering line n replaces it), and a
\* line removed by DELETE n or by entering n alone does not appear.  LIST
\* ends its listing with an empty line, and parse_line adds READY.
C1_ListPrintsStoredLines ==
  current_line = "LIST" => cout = ExpectedListing \o << "", "", "READY" >>

\* C1: LIST ran after line 20 was entered, line 10 was entered with a text
\* that replaced an earlier one or followed a removal, and both are listed.
C1_Listed ==
  /\ current_line = "LIST"
  /\ entered[10] = "PRINT 1"
  /\ entered[20] = "REM"
  /\ cout = << "10\tPRINT 1", "20\tREM", "", "", "READY" >>

\* C3: the outcome of parse_line is determined by the kind the error was
\* created with: after a SYNTAX error has_syntax_error is set and parse_line
\* returned true, after a FATAL error parse_line returned false.
C3_OutcomeFollowsKind ==
  /\ caught = << "SYNTAX" >> => b.m_has_syntax_error /\ returned
  /\ caught = << "FATAL" >> => ~returned

\* Statements with a type mismatch: AND and NOT applied to an Integer, COS
\* applied to a String, IF with an Integer for its condition.
TypeMismatches ==
  {"PRINT 1 AND 2", "PRINT NOT(1)", "PRINT COS(\"A\")", "IF 1 THEN REM"}

\* C4: every type mismatch in an operator or builtin function is a
\* recoverable SYNTAX error, never FATAL: parse_line reports SYNTAX and
\* returns true.
C4_MismatchIsSyntax ==
  current_line \in TypeMismatches => caught = << "SYNTAX" >> /\ returned

\* The statements that are for a running program only.
DeferredOnly == {"GOTO 10", "GOSUB 10", "RETURN", "END", "STOP"}

\* C5: in Immediate mode each of GOTO, GOSUB, RETURN, END and STOP raises
\* SYNTAX and changes nothing: the program cursor, the return stack, the
\* exiting flag and the program store are as before, and parse_line returns
\* true.
C5_DeferredOnlyChangesNothing ==
  [][current_line' \in DeferredOnly =>
       /\ caught' = << "SYNTAX" >>
       /\ b'.m_program_it = b.m_program_it
       /\ b'.m_program_stack = b.m_program_stack
       /\ b'.m_exiting = b.m_exiting
       /\ b'.m_program = b.m_program
       /\ returned']_vars

\* ------------------------------------------------------------------------
\* The same session in the string_ref build
\* ------------------------------------------------------------------------

\* One pass of the loop of main( ) in the string_ref build, as far as the
\* program store goes: getline overwrites the buffer of current_line, and
\* parse_line stores views of it.
TypeRef(typed) ==
  /\ current_line_ref' = getline(current_line_ref, typed)
  /\ m_program_ref' = parse_line_ref(m_program_ref, current_line_ref')
  /\ UNCHANGED << b, pc, current_line, returned, cout, caught,
                  last_line, last_text, passes, matched, gosub_lines >>

RefEnterLine ==
  \E n \in LineNumbers, t \in LineTexts :
    /\ TypeRef(integer_to_string(n) \o " " \o t)
    /\ entered' = [entered EXCEPT ![n] = t]

RefEnterNumber ==
  \E n \in LineNumbers :
    /\ TypeRef(integer_to_string(n))
    /\ entered' = [entered EXCEPT ![n] = NoText]

RefEnterDelete ==
  \E n \in LineNumbers :
    /\ TypeRef("DELETE " \o integer_to_string(n))
    /\ entered' = [entered EXCEPT ![n] = NoText]

RefList ==
  /\ TypeRef("LIST")
  /\ UNCHANGED entered

NextRef == RefEnterLine \/ RefEnterNumber \/ RefEnterDelete \/ RefList

SpecRef == Init /\ [][NextRef]_vars

\* C2: a stored program line keeps the text it was entered with: once line
\* n is stored with text t, a later LIST observes text t for line n,
\* whatever other lines are typed in between, until line n itself is
\* re-entered or deleted.
C2_StoredLineKeepsText ==
  text_of(current_line_ref) = "LIST" =>
    list_ref(m_program_ref, current_line_ref) = ExpectedListing

\* ------------------------------------------------------------------------
\* Running a program
\* ------------------------------------------------------------------------

\* Program codes an engine is constructed with.
ProgramCodes ==
  {"10 REM\n20 GOTO 40\n30 END\n40 GOTO 10",
   "10 GOSUB 30\n20 END\n30 GOSUB 50\n40 RETURN\n50 RETURN",
   "10 RETURN\n20 REM",
   "10 X=5\n20 IF X=1 THEN 40\n30 IF X=5 THEN 50\n40 END\n50 REM",
   "10 IF 1=1 GOTO 30\n20 END\n30 REM",
   "10 IF 1=1                                                                             THEN 30\n20 END\n30 REM",
   "10 PRINT 1 AND 2\n20 REM",
   "10 GOSUB 20\n20 if 1=2 then 10\n30 RETURN",
   "10 GOSUB 10",
   "10 IF 1=1 THEN FOO:PRINT 2\n20 PRINT 3",
   "10 X=5\n20 STOP\n30 PRINT X",
   "10 QUIT\n20 EXIT\n30 REM",
   "10 IF 1=1 THEN FOO:END\n20 REM"}

MaxStack == 4

\* The state of the observations of the run loop when a run begins.
RunObserved ==
  /\ last_line' = 0 - 1
  /\ last_text' = ""
  /\ matched' = 0 - 1
  /\ gosub_lines' = << >>
  /\ UNCHANGED passes

\* The state after m_keywords["RUN"] or ["CONT"] entered run( ) as r says:
\* the loop of run( ) stands before its first pass, or run( ) found no line
\* to run and returned true, or the entry threw.
RunEntered(r) ==
  IF r.err = "" /\ r.e.m_basic[1].m_program_it # end(r.e.m_basic[1])
  THEN /\ b' = r.e
       /\ pc' = "running"
       /\ cout' = << >>
       /\ caught' = << >>
       /\ UNCHANGED returned
  ELSE IF r.err = ""
  THEN /\ b' = r.e
       /\ pc' = "idle"
       /\ cout' = << "", "READY" >>
       /\ caught' = << >>
       /\ returned' = TRUE
  ELSE \E read \in ErrorTypeReads : Parsed(catch_clauses(r, read))

\* The user enters RUN or RUN n: parse_line dispatches m_keywords["RUN"],
\* which enters run( ) of the child engine.  When run( ) throws or finds no
\* line to run, the call of parse_line ends in this step.
RunStart ==
  \E arg \in {""} \cup {" " \o integer_to_string(n) : n \in LineNumbers} :
    \E r \in {keyword_RUN([b EXCEPT !.m_exiting = FALSE], trim_copy(arg))} :
      /\ pc = "idle"
      /\ current_line' = "RUN" \o arg
      /\ RunObserved
      /\ UNCHANGED << current_line_ref, m_program_ref, entered >>
      /\ RunEntered(r)

\* The user enters CONT: parse_line dispatches m_keywords["CONT"], which
\* enters run( ) of the child engine behind the line its cursor is on.  The
\* child keeps its return stack.
ContStart ==
  \E r \in {keyword_CONT([b EXCEPT !.m_exiting = FALSE], "")} :
    /\ pc = "idle"
    /\ current_line' = "CONT"
    /\ last_line' = 0 - 1
    /\ last_text' = ""
    /\ matched' = 0 - 1
    /\ UNCHANGED << passes, gosub_lines, current_line_ref, m_program_ref, entered >>
    /\ RunEntered(r)

\* The line numbers of the statement a pass dispatched, by its keyword.
keyword_of(text) == to_upper_copy(split_in_two_on_char(text, " ")[1])

\* One pass of the loop of run( ) in the child engine; when run( ) returns,
\* m_keywords["RUN"] returns its result and parse_line of b ends.
RunStep ==
  /\ pc = "running"
  /\ Len(b.m_basic[1].m_program_stack) < MaxStack
  /\ LET child   == b.m_basic[1]
         current == deref(child, child.m_program_it)
     IN  \E plain \in {run_pass(child, << "SYNTAX", "SYNTAX" >>)} :
         \E reads \in (IF plain.caught = << >> THEN {<< "SYNTAX", "SYNTAX" >>}
                        ELSE Reads(current.second)) :
         \E p \in {run_pass(child, reads)} :
           /\ b' = [b EXCEPT !.m_basic = << p.e >>]
           /\ cout' = p.cout \o (IF p.does = "true" THEN << "", "READY" >> ELSE << >>)
           /\ caught' = p.caught
           /\ pc' = CASE p.does = "loop"  -> "running"
                      [] p.does = "true"  -> "idle"
                      [] p.does = "false" -> "terminated"
                      [] OTHER            -> "undefined"
           /\ returned' = IF p.does \in {"true", "false"} THEN p.does = "true" ELSE returned
           /\ IF 0 <= current.first
              THEN /\ last_line' = current.first
                   /\ last_text' = current.second
                   /\ passes' = ~passes
                   /\ gosub_lines' =
                        IF p.caught # << >> THEN gosub_lines
                        ELSE IF keyword_of(current.second) = "GOSUB"
                             THEN Append(gosub_lines, current.first)
                        ELSE IF keyword_of(current.second) = "RETURN" /\ gosub_lines # << >>
                             THEN Front(gosub_lines)
                        ELSE gosub_lines
                   /\ matched' =
                        IF p.caught = << >> /\ keyword_of(current.second) = "RETURN"
                           /\ gosub_lines # << >>
                        THEN Last(gosub_lines) ELSE 0 - 1
              ELSE UNCHANGED << last_line, last_text, passes, gosub_lines, matched >>
  /\ UNCHANGED << current_line, current_line_ref, m_program_ref, entered >>

InitRun ==
  /\ b \in {BasicOf(program_code) : program_code \in ProgramCodes}
  /\ pc = "idle"
  /\ current_line = ""
  /\ current_line_ref = [size |-> 0, data |-> Terminator]
  /\ m_program_ref = << [first |-> 0 - 1, second |-> [ptr |-> 0, size |-> 0]] >>
  /\ returned = TRUE
  /\ cout = << >>
  /\ caught = << >>
  /\ entered = [n \in LineNumbers |-> NoText]
  /\ last_line = 0 - 1
  /\ last_text = ""
  /\ passes = FALSE
  /\ matched = 0 - 1
  /\ gosub_lines = << >>

NextRun == RunStart \/ ContStart \/ RunStep

\* An engine constructed with a program, and the user running it.
SpecRun == InitRun /\ [][NextRun]_vars

\* ------------------------------------------------------------------------
\* Properties of a running program
\* ------------------------------------------------------------------------

\* The program of the engine e has a line numbered n.
HasLine(e, n) == \E i \in 1..Len(e.m_program) : e.m_program[i].first = n

\* The number of the line that follows line n of the program of e in
\* ascending line-number order, or -1 when line n is its last.
Successor(e, n) ==
  LET later == {e.m_program[i].first : i \in 1..Len(e.m_program)} \ (0 - 1)..n
  IN  IF later = {} THEN 0 - 1 ELSE CHOOSE m \in later : \A k \in later : m <= k

\* The number of the line at the cursor of the engine RUN made.
CursorLine == deref(b.m_basic[1], b.m_basic[1].m_program_it).first

\* The line number n of the statement  GOTO n, or -1 for another text.
GotoTarget(text) ==
  LET parsed == split_in_two_on_char(text, " ") IN
  IF Len(parsed) = 2 /\ to_upper_copy(parsed[1]) = "GOTO"
     /\ get_value_type(parsed[2]) = "INTEGER"
  THEN to_integer(parsed[2]).v ELSE 0 - 1

\* The last pass of the run loop executed GOTO n for a line n of the program.
AfterGoto ==
  /\ caught = << >>
  /\ GotoTarget(last_text) >= 0
  /\ HasLine(b.m_basic[1], GotoTarget(last_text))

\* C6: in a running program, after GOTO n executes and line n exists, the
\* run loop goes on and the next program line it executes is line n, for
\* every n, including the lowest-numbered line of the program (where the
\* cursor passes over the sentinel) and a jump backwards.
C6_GotoReachesLine ==
  /\ [](AfterGoto => pc = "running")
  /\ [][AfterGoto /\ passes' # passes => last_line' = GotoTarget(last_text)]_vars

\* C6: line 40 held GOTO 10, a jump backwards to the lowest-numbered line;
\* it executed and the loop stands before its next pass.
C6_JumpedBack ==
  /\ pc = "running"
  /\ caught = << >>
  /\ last_line = 40
  /\ last_text = "GOTO 10"
  /\ CursorLine = 10

\* C7: in a running program, RETURN resumes execution at the line that
\* follows, in ascending line-number order, the line holding the matching
\* GOSUB; with nested GOSUBs the returns are matched last-in first-out.
C7_ReturnResumesAfterGosub ==
  /\ [](matched >= 0 /\ Successor(b.m_basic[1], matched) >= 0 => pc = "running")
  /\ [][matched >= 0 /\ passes' # passes => last_line' = Successor(b.m_basic[1], matched)]_vars

\* C7: the GOSUB of line 30, nested in the subroutine line 10 called, has
\* returned, and the GOSUB of line 10 is still open.
C7_ReturnedFromNested ==
  /\ pc = "running"
  /\ matched = 30
  /\ gosub_lines = << 10 >>
  /\ CursorLine = 40

\* C8: the return stack grows by exactly one entry on each successful GOSUB
\* and shrinks by exactly one on each RETURN, so after a matched
\* GOSUB/RETURN pair its size is what it was before; RETURN on an empty
\* return stack raises SYNTAX, and m_keywords["RETURN"] leaves the stack and
\* the cursor as they were.
C8_ReturnStackGrowsAndShrinks ==
  /\ [][pc = "running" /\ passes' # passes /\ caught' = << >> =>
          /\ keyword_of(last_text') = "GOSUB" =>
                Len(b'.m_basic[1].m_program_stack) = Len(b.m_basic[1].m_program_stack) + 1
          /\ keyword_of(last_text') = "RETURN" =>
                Len(b'.m_basic[1].m_program_stack) = Len(b.m_basic[1].m_program_stack) - 1]_vars
  /\ [](matched >= 0 => Len(b.m_basic[1].m_program_stack) = Len(gosub_lines))
  /\ [][pc = "running" /\ passes' # passes /\ keyword_of(last_text') = "RETURN"
          /\ b.m_basic[1].m_program_stack = << >> =>
          /\ caught' = << "SYNTAX" >>
          /\ b'.m_basic[1].m_program_stack = << >>]_vars
  /\ [](pc = "running" /\ b.m_basic[1].m_program_stack = << >> =>
          /\ keyword_RETURN(b.m_basic[1], "").err = "SYNTAX"
          /\ keyword_RETURN(b.m_basic[1], "").e = b.m_basic[1])

\* C8: both GOSUBs of the nested program have returned and the return stack
\* is empty, as it was before the first of them.
C8_PairsReturned ==
  /\ pc = "running"
  /\ last_text = "RETURN"
  /\ matched = 10
  /\ b.m_basic[1].m_program_stack = << >>

\* The positions of text where word stands, in either case.
WordAt(text, word) ==
  {p \in 0..(Len(text) - Len(word)) : to_upper_copy(substr(text, p, Len(word))) = word}

\* The condition c and the line number n of the statement  IF c word n,
\* where word is THEN or GOTO and c holds no quotes and no brackets; n is -1
\* for another text.
IfClause(text, word) ==
  LET parsed == split_in_two_on_char(text, " ") IN
  IF Len(parsed) = 2 /\ to_upper_copy(parsed[1]) = "IF" /\ WordAt(parsed[2], word) # {}
  THEN LET p      == first_of(WordAt(parsed[2], word))
           target == trim_copy(substr_from(parsed[2], p + Len(word)))
       IN  [c |-> substr(parsed[2], 0, p),
            n |-> IF get_value_type(target) = "INTEGER" THEN to_integer(target).v ELSE 0 - 1]
  ELSE [c |-> "", n |-> 0 - 1]

\* The condition c has the Boolean value v in the engine e.
ConditionIs(e, c, v) ==
  LET value == evaluate(e, c) IN
  value.err = "" /\ value.v.first = "BOOLEAN" /\ value.v.second = v

\* A pass of the run loop that dispatches  IF c word n  with n a line of the
\* program: with c true the loop goes on at line n, with c false the return
\* stack and the variables stay and the loop goes on at the following line.
IfBranches(word) ==
  LET text == last_text'
      if   == IfClause(text, word)
      old  == b.m_basic[1]
  IN  (pc = "running" /\ passes' # passes /\ if.n >= 0 /\ HasLine(old, if.n)) =>
        /\ ConditionIs(old, if.c, TRUE) =>
              pc' = "running" /\ CursorLine' = if.n
        /\ ConditionIs(old, if.c, FALSE) =>
              /\ caught' = << >>
              /\ b'.m_basic[1].m_program_it = old.m_program_it + 1
              /\ b'.m_basic[1].m_program_stack = old.m_program_stack
              /\ b'.m_basic[1].m_variables = old.m_variables

\* C9: in a running program, IF c THEN n with c true and n an existing line
\* number makes line n the next line executed; with c false it is a no-op:
\* cursor, return stack and variables are unchanged and execution continues
\* with the following line.
C9_IfThenBranches == [][IfBranches("THEN")]_vars

\* C10: IF recognises GOTO as well as THEN as the end of its condition: in a
\* running program IF c GOTO n with c true transfers control to line n
\* exactly as IF c THEN n does.
C10_IfGotoBranches == [][IfBranches("GOTO")]_vars

\* The lines of out that a PRINT wrote: all but the empty line and READY of
\* the prompt.
Printed(out) == SelectSeq(out, LAMBDA line : line \notin {"", "READY"})

\* The statements of a program line run one after the other up to and
\* including the first one that raises a SYNTAX error: the engine that
\* leaves, what was printed, and whether a statement failed.
RECURSIVE until_error(_, _)
until_error(e, statements) ==
  IF statements = << >> THEN [e |-> e, cout |-> << >>, failed |-> FALSE]
  ELSE Bind(parse_line(e, Head(statements), << "SYNTAX", "SYNTAX" >>, 0), LAMBDA r :
         IF \E i \in 1..Len(r.caught) : r.caught[i] = "SYNTAX"
         THEN [e |-> r.e, cout |-> r.cout, failed |-> TRUE]
         ELSE Bind(until_error(r.e, Tail(statements)), LAMBDA rest :
                [rest EXCEPT !.cout = r.cout \o @]))

\* The pass of the run loop that this step makes caught a SYNTAX error.
SyntaxErrorInPass ==
  /\ pc = "running"
  /\ passes' # passes
  /\ \E i \in 1..Len(caught') : caught'[i] = "SYNTAX"

\* C11: when a statement of program line L raises a SYNTAX error during RUN,
\* execution stops there: the pass printed and assigned what the statements
\* of L up to the failing one print and assign and nothing more, no later
\* line is run, RUN returns true and the session is in Immediate mode.
C11_SyntaxErrorStopsRun ==
  [][SyntaxErrorInPass =>
       LET child    == b.m_basic[1]
           current  == deref(child, child.m_program_it)
           expected == until_error(add_constant(child, "CURRENT_LINE",
                                                basic_value_integer(current.first)).e,
                                   split_statements(current.second, 0, 0).v)
       IN  /\ pc' = "idle"
           /\ returned'
           /\ b'.m_run_mode = "IMMEDIATE"
           /\ Printed(cout') = Printed(expected.cout)
           /\ b'.m_basic[1].m_variables = expected.e.m_variables]_vars

\* The last pass of the run loop executed STOP.
AfterStop == caught = << >> /\ keyword_of(last_text) = "STOP"

\* C12: after a running program executes STOP on line L, the session is
\* back in Immediate mode; a CONT that follows enters the run loop at the
\* first line of the program after L, with the variables of the program
\* holding the values they had at the STOP, and that line is the next one
\* executed.
C12_ContResumesAfterStop ==
  /\ [](AfterStop => pc = "idle" /\ returned /\ b.m_run_mode = "IMMEDIATE")
  /\ [][AfterStop /\ current_line' = "CONT" /\ Successor(b.m_basic[1], last_line) >= 0 =>
          /\ pc' = "running"
          /\ caught' = << >>
          /\ CursorLine' = Successor(b.m_basic[1], last_line)
          /\ b'.m_basic[1].m_variables = b.m_basic[1].m_variables]_vars
  /\ [][pc = "running" /\ current_line = "CONT" /\ last_text = "" /\ passes' # passes =>
          last_line' = CursorLine]_vars

\* C12: the program stopped on line 20 with X = 5, CONT was entered, and the
\* pass that followed executed line 30, which printed the 5.
C12_Continued ==
  /\ current_line = "CONT"
  /\ last_line = 30
  /\ last_text = "PRINT X"
  /\ caught = << >>
  /\ Printed(cout) = << "5" >>

\* ------------------------------------------------------------------------
\* Properties of leaving
\* ------------------------------------------------------------------------

\* C13: QUIT or EXIT typed first on a line in Immediate mode makes
\* parse_line return false, so that main( ) leaves its loop, and no
\* sub-statement that follows it on the line is executed: nothing is printed but the good bye of QUIT, and
\* nothing of the engine changes but its exiting flag.
C13_QuitStopsTheLine ==
  [][\A line \in {current_line'} \cap Statements :
     \A first \in {keyword_of(split_statements(line, 0, 0).v[1])} \cap {"QUIT", "EXIT"} :
       /\ ~returned'
       /\ pc' = "terminated"
       /\ caught' = << >>
       /\ cout' = IF first = "QUIT" THEN << "Good bye", "" >> ELSE << >>
       /\ b' = [b EXCEPT !.m_exiting = TRUE]]_vars

\* C13: QUIT was typed with a PRINT behind it on the line, and the session
\* ended with the good bye alone.
C13_QuitBeforePrint ==
  /\ current_line = "QUIT:PRINT 1"
  /\ pc = "terminated"
  /\ ~returned
  /\ cout = << "Good bye", "" >>

\* The statements of the line the cursor of the running program is on
\* execute END, STOP, QUIT or EXIT: each of them sets the exiting flag, and
\* parse_line returns as soon as it finds the flag set.
ExitExecuted ==
  LET child   == b.m_basic[1]
      current == deref(child, child.m_program_it)
  IN  /\ pc = "running"
      /\ 0 <= current.first
      /\ parse_line(add_constant(child, "CURRENT_LINE", basic_value_integer(current.first)).e,
                    current.second, << "SYNTAX", "SYNTAX" >>, 0).e.m_exiting

\* C14: END, STOP, QUIT or EXIT executed inside a running program ends only
\* the program: the run loop makes no further pass, the exiting flag of the
\* child is cleared, RUN returns true to the parent, and the parent is in
\* Immediate mode and not exiting.
C14_ExitEndsOnlyTheProgram ==
  [][ExitExecuted /\ passes' # passes =>
       /\ pc' = "idle"
       /\ returned'
       /\ ~b'.m_basic[1].m_exiting
       /\ b'.m_run_mode = "IMMEDIATE"
       /\ ~b'.m_exiting]_vars

\* ------------------------------------------------------------------------
\* The evaluator by itself: evaluate( value ) of a fresh engine
\* ------------------------------------------------------------------------

MaxLiteral == 3

\* Expressions with the value ordinary precedence gives them, built by the
\* grammar  sum ::= product | sum + product,  product ::= atom | product * atom,
\* atom ::= literal | ( sum ).
Literal == {[text |-> integer_to_string(n), value |-> n] : n \in 1..MaxLiteral}

Times(P, Q) ==
  {[text |-> p.text \o "*" \o q.text, value |-> p.value * q.value] : p \in P, q \in Q}

Plus(P, Q) ==
  {[text |-> p.text \o "+" \o q.text, value |-> p.value + q.value] : p \in P, q \in Q}

Bracketed(P) == {[text |-> "(" \o p.text \o ")", value |-> p.value] : p \in P}

Products == Literal \cup Times(Literal, Literal)

Brackets == Bracketed(Plus(Literal, Literal)) \cup Bracketed(Bracketed(Plus(Literal, Literal)))

Expressions ==
  Products \cup Plus(Products, Products)
    \cup Plus(Plus(Literal, Literal), Literal)
    \cup Times(Brackets, Literal) \cup Times(Literal, Brackets)
    \cup Plus(Literal, Brackets)
    \cup Bracketed(Times(Brackets, Literal))

InitEval ==
  /\ b = Basic
  /\ pc = "idle"
  /\ current_line \in {x.text : x \in Expressions}
  /\ current_line_ref = [size |-> 0, data |-> Terminator]
  /\ m_program_ref = << [first |-> 0 - 1, second |-> [ptr |-> 0, size |-> 0]] >>
  /\ returned = Ok(EMPTY_BASIC_VALUE)
  /\ cout = << >>
  /\ caught = << >>
  /\ entered = [n \in LineNumbers |-> NoText]
  /\ last_line = 0 - 1
  /\ last_text = ""
  /\ passes = FALSE
  /\ matched = 0 - 1
  /\ gosub_lines = << >>

\* b.evaluate( current_line ) is called and returns or throws.
Evaluate ==
  /\ pc = "idle"
  /\ pc' = "evaluated"
  /\ returned' = evaluate(b, current_line)
  /\ UNCHANGED << b, current_line, current_line_ref, m_program_ref, cout, caught, entered,
                  last_line, last_text, passes, matched, gosub_lines >>

NextEval == Evaluate

SpecEval == InitEval /\ [][NextEval]_vars

\* C15: for an expression built from integer literals, parentheses and the
\* binary operators + and *, evaluate returns the INTEGER that ordinary
\* precedence gives: parenthesised parts first, * before +.
C15_EvaluateFollowsPrecedence ==
  pc = "evaluated" =>
    \A x \in Expressions :
      current_line = x.text =>
        /\ returned.err = ""
        /\ returned.v.first = "INTEGER"
        /\ returned.v.second = x.value

\* ------------------------------------------------------------------------
\* Assignments at the prompt
\* ------------------------------------------------------------------------

\* Assignments typed at the prompt, in both forms, to names in either case:
\* to identifiers, to a constant, a function and a keyword, and to a cell.
Assignments ==
  {"X=5", "x=1+2", "LET X=Y", "LET x=5", "Y=5", "LET Y=Y",
   "PI=5", "LET pi=5", "COS=5", "LET cos=5", "PRINT=5", "LET PRINT=5",
   "PI(0)=5", "LET PI(0)=Y"}

\* The user enters  LET name=expression  or the implicit form.
EnterAssignment ==
  \E assignment \in Assignments :
    /\ Type(assignment)
    /\ UNCHANGED entered

NextLet == EnterAssignment

\* A session at the prompt in which variables are assigned.
SpecLet == Init /\ [][NextLet]_vars

\* The two sides of the assignment a line holds, the name in upper case.
AssignmentOf(line) ==
  LET text  == IF to_upper_copy(substr(line, 0, 4)) = "LET " THEN substr_from(line, 4)
               ELSE line
      sides == split_in_two_on_char(text, "=")
  IN  [name |-> to_upper_copy(sides[1]), source |-> sides[2]]

\* The identifiers of the session that are no symbol of the engine.
Identifiers == {"X", "Y"}

\* The step is an assignment that succeeded.
Succeeded == caught' = << >> /\ returned'

\* C16: an identifier that has never been assigned is no variable and no
\* constant: none is at the start, and none becomes one by a step that is
\* no successful assignment to it.  After  LET x=e  or  x=e  succeeds, x is
\* a variable, and get_variable_constant( x ) is what evaluate( e ) gave.
C16_VariableOnlyByAssignment ==
  /\ \A x \in Identifiers : ~is_variable(b, x) /\ ~is_constant(b, x)
  /\ [][\A line \in {current_line'} :
        \A assignment \in {AssignmentOf(line)} :
        \A x \in Identifiers :
          IF assignment.name = x /\ Succeeded
          THEN /\ is_variable(b', x)
               /\ evaluate(b, assignment.source).err = ""
               /\ get_variable_constant(b', x) = evaluate(b, assignment.source)
          ELSE ~is_variable(b, x) => ~is_variable(b', x) /\ ~is_constant(b', x)]_vars

\* The name an assignment is to: the target up to its bracket, if it has one.
BaseName(name) ==
  IF find_first_of(name, "(") = npos THEN name ELSE substr(name, 0, find_first_of(name, "("))

\* The name is one of a constant, a function or a keyword of the engine e.
BuiltIn(e, name) == is_constant(e, name) \/ is_function(e, name) \/ is_keyword(e, name)

DimSizes == {<< 2 >>, << 2, 3 >>}

\* The index vectors within the bounds that sizes declares.
InBounds(sizes) ==
  IF Len(sizes) = 1 THEN {<< i >> : i \in 0..(sizes[1] - 1)}
  ELSE {<< i, j >> : i \in 0..(sizes[1] - 1), j \in 0..(sizes[2] - 1)}

\* A(i) or A(i,j) as it is typed.
CellText(index) ==
  "A(" \o integer_to_string(index[1])
       \o (IF Len(index) = 1 THEN "" ELSE "," \o integer_to_string(index[2])) \o ")"

\* A cell assigned from the text source.
CellAssignment(index, source) ==
  [text |-> CellText(index) \o "=" \o source, index |-> index, source |-> source]

\* Assignments to cells of either shape, and to index vectors beyond the
\* bounds.
CellAssignments ==
  {CellAssignment(<< 0 >>, "5"), CellAssignment(<< 0 >>, "7"),
   CellAssignment(<< 1 >>, "5"), CellAssignment(<< 2 >>, "5"),
   CellAssignment(<< 0 - 1 >>, "5")}
  \cup
  {CellAssignment(index, "5") :
     index \in {<< 0, 0 >>, << 1, 0 >>, << 0, 1 >>, << 1, 2 >>, << 2, 0 >>}}

\* The user enters  DIM A(sizes).
EnterDim ==
  \E sizes \in DimSizes :
    /\ Type("DIM " \o CellText(sizes))
    /\ UNCHANGED entered

\* The user enters an assignment to a cell of A.
EnterCell ==
  \E cell \in CellAssignments :
    /\ Type(cell.text)
    /\ UNCHANGED entered

\* The cells that are read: within the bounds of either shape and beyond.
CellReads == {<< 0 >>, << 2 >>, << 1, 2 >>, << 2, 0 >>}

\* The user enters  PRINT A(index).
EnterRead ==
  \E index \in CellReads :
    /\ Type("PRINT " \o CellText(index))
    /\ UNCHANGED entered

NextDim == EnterDim \/ EnterCell \/ EnterRead

\* A session at the prompt in which an array is declared and assigned.
SpecDim == Init /\ [][NextDim]_vars

\* What the expression A(index) evaluates to in the engine e.
CellValue(e, index) == evaluate(e, CellText(index))

\* C20: for an array that DIM declared with one or two dimensions and index
\* vectors within its bounds: after the DIM every cell reads Empty; an
\* assignment A(i)=w succeeds, after it A(i) reads w and every other cell
\* reads what it read before; a step that assigns no cell changes none.
C20_CellsAreDistinct ==
  [][\A line \in {current_line'} :
       /\ \A sizes \in DimSizes :
            (line = "DIM " \o CellText(sizes) /\ caught' = << >>) =>
              \A j \in InBounds(sizes) : CellValue(b', j) = Ok(EMPTY_BASIC_VALUE)
       /\ is_array(b, "A") =>
            \A sizes \in {b.m_arrays["A"].m_dimensions} \cap DimSizes :
              /\ \A cell \in CellAssignments :
                   (line = cell.text /\ cell.index \in InBounds(sizes)) =>
                     /\ caught' = << >>
                     /\ CellValue(b', cell.index) = evaluate(b, cell.source)
                     /\ \A j \in InBounds(sizes) \ {cell.index} :
                          CellValue(b', j) = CellValue(b, j)
              /\ (\A cell \in CellAssignments : line # cell.text) =>
                   \A j \in InBounds(sizes) : CellValue(b', j) = CellValue(b, j)]_vars

\* In an array of 2 by 3 cells the last cell has just been assigned, a cell
\* assigned before still reads its value, and the cells between read Empty.
C20_CornersAssigned ==
  /\ current_line = "A(1,2)=5"
  /\ caught = << >>
  /\ CellValue(b, << 1, 2 >>) = Ok(basic_value_integer(5))
  /\ CellValue(b, << 0, 0 >>) = Ok(basic_value_integer(5))
  /\ \A j \in InBounds(<< 2, 3 >>) \ {<< 0, 0 >>, << 1, 2 >>} :
       CellValue(b, j) = Ok(EMPTY_BASIC_VALUE)

\* The index vectors of the session that have as many indexes as sizes
\* declares, one of them outside its own dimension.
OutOfBounds(sizes) ==
  {index \in {cell.index : cell \in CellAssignments} \cup CellReads :
     /\ Len(index) = Len(sizes)
     /\ \E k \in 1..Len(sizes) : index[k] < 0 \/ index[k] >= sizes[k]}

\* C21: every read and every write of a cell of a declared array in which
\* some index lies outside its own dimension fails with SYNTAX and leaves
\* every cell of the array as it was, for one and for two dimensions.
C21_OutOfBoundsIsSyntax ==
  [][\A line \in {current_line'} :
       is_array(b, "A") =>
         \A sizes \in {b.m_arrays["A"].m_dimensions} \cap DimSizes :
           \A index \in OutOfBounds(sizes) :
             (\/ line = "PRINT " \o CellText(index)
              \/ \E cell \in CellAssignments : cell.index = index /\ line = cell.text) =>
               /\ caught' = << "SYNTAX" >>
               /\ b'.m_arrays = b.m_arrays]_vars

\* ------------------------------------------------------------------------
\* Declarations at the prompt
\* ------------------------------------------------------------------------

\* The names of the arrays of the session.
DeclaredNames == {"A", "B"}

\* DIM statements typed at the prompt.
Declarations == {"DIM A(2)", "DIM A(3)", "DIM B(2)"}

\* Assignments to an element, and assignments to a scalar variable that has
\* the name of an array of the session.
ElementAssignments == {"A(0)=5", "B(0)=5"}
ScalarAssignments == {"A=1"}

\* The user enters a DIM statement.
EnterDeclaration ==
  \E line \in Declarations :
    /\ Type(line)
    /\ UNCHANGED entered

\* The user enters an assignment to an element.
EnterElement ==
  \E line \in ElementAssignments :
    /\ Type(line)
    /\ UNCHANGED entered

\* The user enters an assignment to a scalar variable.
EnterScalar ==
  \E line \in ScalarAssignments :
    /\ Type(line)
    /\ UNCHANGED entered

NextDeclare == EnterDeclaration \/ EnterElement \/ EnterScalar

\* A session at the prompt in which arrays are declared, elements are
\* assigned and a scalar variable gets the name of an array.
SpecDeclare == Init /\ [][NextDeclare]_vars

\* The name of the array a line declares, or "" for a line that is no DIM.
DeclaredBy(line) ==
  IF line \in Declarations THEN BaseName(substr_from(line, 4)) ELSE ""

\* C22: DIM name(...) issued while an array called name exists fails with
\* SYNTAX and leaves the dimensions and the contents of that array as they
\* were, also when a scalar variable of that name has been assigned since.
C22_ReDimIsRefused ==
  [][\A line \in {current_line'} :
     \A name \in {DeclaredBy(line)} \cap DeclaredNames :
       is_array(b, name) =>
         /\ caught' = << "SYNTAX" >>
         /\ b'.m_arrays[name] = b.m_arrays[name]]_vars

\* C29: an array exists only as the result of a successful DIM: there is
\* none at the start, and a name becomes the name of an array only by a
\* DIM of that name which threw nothing.  An assignment to an element of an
\* array that was not declared fails with SYNTAX and creates no array.
C29_ArraysOnlyByDim ==
  /\ \A name \in DeclaredNames : ~is_array(b, name)
  /\ [][\A line \in {current_line'} :
        \A name \in DeclaredNames :
          /\ (~is_array(b, name) /\ is_array(b', name)) =>
                (DeclaredBy(line) = name /\ caught' = << >>)
          /\ (~is_array(b, name) /\ line \in ElementAssignments
                /\ BaseName(AssignmentOf(line).name) = name) =>
                caught' = << "SYNTAX" >>]_vars

\* ------------------------------------------------------------------------
\* Names in the string_ref build (src/DAWBASIC/main.cpp).  Its engine has
\* the tables of Basic, and key_exists, retrieve_value, get_array_variable
\* and split_arrayfunction_from_string do there what they do above.
\* ------------------------------------------------------------------------

\* get_variable_constant( boost::string_ref name ): the constant is fetched
\* with  m_constants[name.to_string( )], the name as it was spelled, and
\* operator[] inserts a constant with the Empty value when the table has no
\* such key.
get_variable_constant_ref(e, name) ==
  IF is_constant(e, name)
  THEN IF name \in DOMAIN e.m_constants THEN Returned(e, e.m_constants[name])
       ELSE Returned([e EXCEPT !.m_constants = (name :> EMPTY_BASIC_VALUE) @@ @],
                     EMPTY_BASIC_VALUE)
  ELSE IF is_variable(e, name) THEN Returned(e, e.m_variables[to_upper_copy(name)])
  ELSE Thrown(e, "FATAL")

\* The default branch of evaluate in the string_ref build.
evaluate_operand_ref(e, current_operand) ==
  Bind(split_arrayfunction_from_string(e, current_operand), LAMBDA split_operand :
    IF split_operand.err # "" THEN Thrown(e, split_operand.err)
    ELSE IF 0 < Len(split_operand.v.second)
    THEN IF is_function(e, split_operand.v.first)
         THEN Bind(exec_builtin(to_upper_copy(split_operand.v.first),
                                split_operand.v.second),
                   LAMBDA r : IF r.err # "" THEN Thrown(e, r.err) ELSE Returned(e, r.v))
         ELSE IF is_array(e, split_operand.v.first)
         THEN Bind(get_array_variable(e, split_operand.v.first, split_operand.v.second),
                   LAMBDA cell :
                     IF cell.err # "" THEN cell
                     ELSE Returned(cell.e, deref_value(cell.e, cell.v)))
         ELSE Thrown(e, "SYNTAX")
    ELSE IF is_variable(e, split_operand.v.first)
    THEN get_variable_constant_ref(e, split_operand.v.first)
    ELSE Bind(get_value_type(current_operand), LAMBDA value_type :
           IF value_type = "INTEGER"
           THEN Bind(to_integer(current_operand), LAMBDA n :
                  IF n.err # "" THEN Thrown(e, n.err)
                  ELSE Returned(e, basic_value_integer(n.v)))
           ELSE IF value_type = "REAL" THEN Returned(e, basic_value_real(current_operand))
           ELSE Thrown(e, "SYNTAX")))

\* m_keywords["DIM"] in the string_ref build: the name of the array is
\* taken as it was spelled.
keyword_DIM_ref(e, parse_string) ==
  Bind(split_in_two_on_char(parse_string, "("), LAMBDA var_name_and_param :
    IF Len(var_name_and_param) # 2 THEN Raise(e, "SYNTAX")
    ELSE Try(e, find_end_of_bracket(var_name_and_param[2]), LAMBDA bracket_end :
         Try(e, evaluate_parameters(e, substr(var_name_and_param[2], 0, bracket_end)),
           LAMBDA params :
             IF 2 < Len(params) \/ 1 > Len(params) THEN Raise(e, "SYNTAX")
             ELSE Bind(var_name_and_param[1], LAMBDA var_name :
                    IF is_keyword(e, var_name) \/ is_function(e, var_name)
                       \/ is_constant(e, var_name)
                    THEN Raise(e, "SYNTAX")
                    ELSE IF ~is_variable(e, var_name) /\ is_array(e, var_name)
                    THEN Raise(e, "SYNTAX")
                    ELSE Bind(IF is_variable(e, var_name)
                              THEN remove_variable(e, var_name).e ELSE e,
                              LAMBDA removed :
                         Bind(add_array_variable(removed, var_name, params),
                              LAMBDA added :
                                IF added.err # "" THEN Raise(added.e, added.err)
                                ELSE Done(added.e, TRUE)))))))

\* Names of constants and cells of arrays, spelled in either case.
NamesRef == {"pi", "PI", "Pi", "true", "TRUE", "a(0)", "A(0)", "b(1)", "B(1)"}

\* Arrays to declare, named in either case.
DimsRef == {"a(2)", "A(2)", "b(2)", "B(2)"}

InitNames ==
  /\ b = Basic
  /\ pc = "idle"
  /\ current_line = ""
  /\ current_line_ref = [size |-> 0, data |-> Terminator]
  /\ m_program_ref = << [first |-> 0 - 1, second |-> [ptr |-> 0, size |-> 0]] >>
  /\ returned = Ok(EMPTY_BASIC_VALUE)
  /\ cout = << >>
  /\ caught = << >>
  /\ entered = [n \in LineNumbers |-> NoText]
  /\ last_line = 0 - 1
  /\ last_text = ""
  /\ passes = FALSE
  /\ matched = 0 - 1
  /\ gosub_lines = << >>

\* b.evaluate( name ) is called for an expression that is one name.
RefEvaluateName ==
  \E name \in NamesRef :
    /\ current_line' = name
    /\ \E r \in {evaluate_operand_ref(b, name)} :
         /\ b' = r.e
         /\ returned' = IF r.err = "" THEN Ok(r.v) ELSE Throw(r.err)
    /\ UNCHANGED << pc, current_line_ref, m_program_ref, cout, caught, entered,
                    last_line, last_text, passes, matched, gosub_lines >>

\* The statement  DIM text  is executed.
RefDim ==
  \E text \in DimsRef :
    /\ current_line' = "DIM " \o text
    /\ \E r \in {keyword_DIM_ref(b, text)} :
         /\ b' = r.e
         /\ returned' = IF r.err = "" THEN Ok(basic_value_boolean(r.result))
                        ELSE Throw(r.err)
    /\ UNCHANGED << pc, current_line_ref, m_program_ref, cout, caught, entered,
                    last_line, last_text, passes, matched, gosub_lines >>

NextNames == RefEvaluateName \/ RefDim

\* The engine of the string_ref build evaluates names and declares arrays.
SpecNames == InitNames /\ [][NextNames]_vars

\* C17: names are case-insensitive.  A name evaluates to what its spelling
\* in upper case evaluates to in the same state (so  pi  gives the value
\* of  PI),  and the cells of an array that DIM has just declared can be read
\* under the name as DIM spelled it.
C17_NamesIgnoreCase ==
  [][/\ current_line' \in NamesRef =>
          \E canonical \in {evaluate_operand_ref(b, to_upper_copy(current_line'))} :
            /\ returned'.err = canonical.err
            /\ canonical.err = "" =>
                  /\ returned'.v.first = canonical.v.first
                  /\ returned'.v.second = canonical.v.second
      /\ \A text \in DimsRef :
           (current_line' = "DIM " \o text /\ returned'.err = "") =>
             evaluate_operand_ref(b', substr(text, 0, 1) \o "(0)").err = ""]_vars

\* ------------------------------------------------------------------------
\* The public registration calls of the engine
\* ------------------------------------------------------------------------

\* Names to register, in either case, the names of a constant, a function
\* and a keyword among them, and values to bind.
RegisteredNames == {"x", "X", "pi", "COS", "LET"}
RegisteredValues == {basic_value_integer(5), basic_value_integer(7)}

\* The call named by current_line, with the name last_text, ended as r says.
Registered(call, name, r, value) ==
  /\ current_line' = call
  /\ last_text' = name
  /\ b' = r.e
  /\ returned' = IF r.err = "" THEN Ok(value) ELSE Throw(r.err)
  /\ UNCHANGED << pc, current_line_ref, m_program_ref, cout, caught, entered,
                  last_line, passes, matched, gosub_lines >>

\* b.add_variable( name, value )
AddVariable ==
  \E name \in RegisteredNames, value \in RegisteredValues :
    Registered("add_variable", name, add_variable(b, name, value), value)

\* b.add_constant( name, "", value )
AddConstant ==
  \E name \in RegisteredNames, value \in RegisteredValues :
    Registered("add_constant", name, add_constant(b, name, value), value)

\* b.add_function( name, "", func )
AddFunction ==
  \E name \in RegisteredNames :
    Registered("add_function", name, add_function(b, name), EMPTY_BASIC_VALUE)

NextRegister == AddVariable \/ AddConstant \/ AddFunction

\* A program that holds an engine registers symbols with it.
SpecRegister == InitNames /\ [][NextRegister]_vars

\* C19: after a registration call returns, the symbol is found under the
\* name the call was given: is_variable and get_variable_constant after
\* add_variable, is_constant and the value after add_constant, is_function
\* after add_function.
C19_RegisteredNameIsFound ==
  [][\A call \in {current_line'}, name \in {last_text'}, r \in {returned'} :
       r.err = "" =>
         /\ call = "add_variable" =>
              is_variable(b', name) /\ get_variable_constant(b', name) = r
         /\ call = "add_constant" =>
              is_constant(b', name) /\ get_variable_constant(b', name) = r
         /\ call = "add_function" => is_function(b', name)]_vars

\* ------------------------------------------------------------------------
\* The program store under every command that touches it
\* ------------------------------------------------------------------------

\* The text of the program lines of this session.
StoredText == "PRINT 1"

\* The arguments of DELETE: the numbers of the lines and other integers.
DeleteArguments == LineNumbers \cup {0 - 1, 0}

\* The user enters program line n.
StoreLine ==
  \E n \in LineNumbers :
    /\ Type(integer_to_string(n) \o " " \o StoredText)
    /\ entered' = [entered EXCEPT ![n] = StoredText]

\* The user enters DELETE with an integer argument.
DeleteInteger ==
  \E n \in DeleteArguments :
    /\ Type("DELETE " \o integer_to_string(n))
    /\ entered' = [m \in LineNumbers |-> IF m = n THEN NoText ELSE entered[m]]

\* The user enters NEW.
EnterNew ==
  /\ Type("NEW")
  /\ entered' = [n \in LineNumbers |-> NoText]

\* The user enters LIST.
EnterList ==
  /\ Type("LIST")
  /\ UNCHANGED entered

NextStore ==
  StoreLine \/ EnterNumber \/ DeleteInteger \/ EnterNew \/ EnterList \/ RunStart \/ RunStep

\* A session at the prompt in which the program is edited, listed, cleared
\* and run.
SpecStore == Init /\ [][NextStore]_vars

\* The store of the engine e in the order sort_program_code gives it.
SortedStore(e) == sorted_by_first(e.m_program)

\* The sentinel is the first line of the sorted store of the engine e.
SentinelFirst(e) ==
  /\ e.m_program # << >>
  /\ SortedStore(e)[1] = [first |-> 0 - 1, second |-> ""]

\* The numbers of the lines of the engine e that are program lines.
StoredNumbers(e) == {e.m_program[i].first : i \in 1..Len(e.m_program)} \ {0 - 1}

\* C23: in every state reached by numbered edits, DELETE with an integer
\* argument, NEW, LIST and RUN the sorted store has the sentinel (-1, "")
\* in front; RUN without a line number places the cursor on the stored line
\* with the lowest number, and no pass of the run loop dispatches the
\* sentinel.
C23_SentinelStaysInFront ==
  /\ SentinelFirst(b)
  /\ [][/\ pc' # "undefined" => SentinelFirst(b')
        /\ \A line \in {current_line'} \cap {"RUN"} :
             (pc = "idle" /\ StoredNumbers(b) # {}) =>
               /\ pc' = "running"
               /\ \A n \in StoredNumbers(b) : CursorLine' <= n
        /\ (pc = "running" /\ pc' = "running") => CursorLine' # 0 - 1]_vars

\* ------------------------------------------------------------------------
\* Numbered lines typed into an engine that has symbols
\* ------------------------------------------------------------------------

\* Statements that give the engine a variable and an array.
SymbolStatements == {"X=5", "DIM A(2)"}

\* Numbers typed in front of a line that are no numbers of LineNumbers: a
\* negative one and the least line number there is.
OtherNumbers == {0 - 1, 0}

\* The text typed behind them.
OtherText == "REM"

\* The user enters a statement that creates or changes a symbol.
EnterSymbol ==
  \E s \in SymbolStatements :
    /\ Type(s)
    /\ UNCHANGED entered

\* The user enters a line that starts with one of the other numbers, with a
\* text behind it or alone.
EnterOtherNumber ==
  \E n \in OtherNumbers, t \in {" " \o OtherText, ""} :
    /\ Type(integer_to_string(n) \o t)
    /\ UNCHANGED entered

NextEdit == EnterLine \/ EnterNumber \/ EnterOtherNumber \/ EnterSymbol

\* A session at the prompt in which numbered lines are typed between
\* statements.
SpecEdit == Init /\ [][NextEdit]_vars

\* The lines of the store of the engine e.
StoredLines(e) == {e.m_program[i] : i \in 1..Len(e.m_program)}

\* The numbers a numbered line of the session starts with.
TypedNumbers == LineNumbers \cup OtherNumbers

\* The step leaves everything of the engine but its store as it was, runs
\* nothing and prints nothing.
OnlyTheStore ==
  /\ b'.m_variables = b.m_variables
  /\ b'.m_arrays = b.m_arrays
  /\ b'.m_constants = b.m_constants
  /\ b'.m_program_it = b.m_program_it
  /\ b'.m_program_stack = b.m_program_stack
  /\ b'.m_run_mode = b.m_run_mode
  /\ b'.m_basic = b.m_basic
  /\ cout' = << >>

\* C24: a line  n text  or  n  alone with n >= 0 only changes the program
\* store: line n gets the text, or is removed, every other line stays,
\* nothing is executed, the variables, arrays, constants, cursor, return
\* stack and run mode are as before, and parse_line returns true.  A
\* negative number is rejected with SYNTAX, and the store is as before.
C24_NumberedLineOnlyEditsStore ==
  [][\A line \in {current_line'} :
     \A n \in TypedNumbers :
       /\ \A t \in LineTexts \cup {OtherText} :
            line = integer_to_string(n) \o " " \o t =>
              IF 0 <= n
              THEN /\ caught' = << >> /\ returned' /\ OnlyTheStore
                   /\ StoredLines(b') =
                        {l \in StoredLines(b) : l.first # n} \cup {[first |-> n, second |-> t]}
              ELSE /\ caught' = << "SYNTAX" >> /\ b'.m_program = b.m_program
       /\ line = integer_to_string(n) =>
            IF 0 <= n
            THEN /\ caught' = << >> /\ returned' /\ OnlyTheStore
                 /\ StoredLines(b') = {l \in StoredLines(b) : l.first # n}
            ELSE /\ caught' = << "SYNTAX" >> /\ b'.m_program = b.m_program]_vars

\* With a variable, an array and a program line in the engine, line 0 has
\* been stored and a line with a negative number has been refused.
C24_EditedBesideSymbols ==
  /\ current_line = "-1 REM"
  /\ caught = << "SYNTAX" >>
  /\ is_variable(b, "X") /\ is_array(b, "A")
  /\ StoredLines(b) = {[first |-> 0 - 1, second |-> ""], [first |-> 0, second |-> "REM"],
                        [first |-> 20, second |-> "PRINT 1"]}

\* ------------------------------------------------------------------------
\* Calls of the string functions: evaluate( value ) of a fresh engine
\* ------------------------------------------------------------------------

MaxCount == 6

\* The strings the functions are applied to.
StringTexts == {"HELLO", "AB"}

\* LEFT$(s,n) with the first min(n, LEN(s)) characters of s for its value.
LeftCalls ==
  {[text  |-> "LEFT$(\"" \o s \o "\"," \o integer_to_string(n) \o ")",
    value |-> SubSeq(s, 1, Min(n, Len(s)))] : s \in StringTexts, n \in 0..MaxCount}

\* MID$(s,p,n) for a position p within s, with the characters of s at the
\* positions p .. p+n-1 that s has for its value, positions counted from 1.
MidCalls ==
  {[text  |-> "MID$(\"" \o t[1] \o "\"," \o integer_to_string(t[2]) \o ","
                \o integer_to_string(t[3]) \o ")",
    value |-> SubSeq(t[1], t[2], Min(t[2] + t[3] - 1, Len(t[1])))] :
     t \in {u \in StringTexts \X (1..MaxCount) \X (0..MaxCount) : u[2] <= Len(u[1])}}

StringCalls == LeftCalls \cup MidCalls

\* Calls with a call for a parameter, and calls with parameters in brackets
\* of their own: LEFT$(MID$(s,2,3),n) and LEFT$((s),(n)).
NestedCalls ==
  {[text  |-> "LEFT$(MID$(\"" \o s \o "\",2,3)," \o integer_to_string(n) \o ")",
    value |-> substr(substr(s, 1, 3), 0, n)] :
     s \in StringTexts, n \in 1..MaxCount}
  \cup
  {[text  |-> "LEFT$((\"" \o s \o "\"),(" \o integer_to_string(n) \o "))",
    value |-> SubSeq(s, 1, Min(n, Len(s)))] : s \in StringTexts, n \in 1..MaxCount}

InitCalls ==
  /\ b = Basic
  /\ pc = "idle"
  /\ current_line \in {x.text : x \in StringCalls \cup NestedCalls}
  /\ current_line_ref = [size |-> 0, data |-> Terminator]
  /\ m_program_ref = << [first |-> 0 - 1, second |-> [ptr |-> 0, size |-> 0]] >>
  /\ returned = Ok(EMPTY_BASIC_VALUE)
  /\ cout = << >>
  /\ caught = << >>
  /\ entered = [n \in LineNumbers |-> NoText]
  /\ last_line = 0 - 1
  /\ last_text = ""
  /\ passes = FALSE
  /\ matched = 0 - 1
  /\ gosub_lines = << >>

NextCalls == Evaluate

\* evaluate is called for an expression that is a call of a string function.
SpecCalls == InitCalls /\ [][NextCalls]_vars

\* C25: for a string s and n >= 0, LEFT$(s,n) is the first min(n, LEN(s))
\* characters of s; for 1 <= p <= LEN(s) and n >= 0, MID$(s,p,n) is the
\* characters of s at the positions p through p+n-1, counted from 1 and
\* clipped at the end of s.
C25_LeftAndMidCutTheString ==
  pc = "evaluated" =>
    \A x \in StringCalls :
      current_line = x.text =>
        /\ returned.err = ""
        /\ returned.v.first = "STRING"
        /\ returned.v.second = x.value

\* C28: the list of parameters of a call is cut at the commas outside
\* brackets and outside quotes only: in F(G(a,b),c) the function F gets two
\* parameters, the value of G(a,b) and c, and in F((a),(b)) it gets a and b,
\* so that LEFT$(MID$("HELLO",2,3),2) is "EL".
C28_ParametersSplitAtDepthZero ==
  pc = "evaluated" =>
    \A x \in NestedCalls :
      current_line = x.text =>
        /\ returned.err = ""
        /\ returned.v.first = "STRING"
        /\ returned.v.second = x.value

\* ------------------------------------------------------------------------
\* Chains of operators: evaluate( value ) of a fresh engine
\* ------------------------------------------------------------------------

\* The integers the expressions are built from.
Operands == 1..MaxLiteral

\* The bases and exponents of the powers.
PowerOperands == {2, 3}

\* The text of an integer literal.
Lit(n) == integer_to_string(n)

\* a+b*c-d and a*-b with the values arithmetic gives them.
MinusExpressions ==
  {[text  |-> Lit(a) \o "+" \o Lit(c[1]) \o "*" \o Lit(c[2]) \o "-" \o Lit(d),
    value |-> a + (c[1] * c[2]) - d] : a \in Operands, c \in Operands \X Operands, d \in Operands}
  \cup
  {[text |-> Lit(a) \o "*-" \o Lit(c), value |-> 0 - (a * c)] : a \in Operands, c \in Operands}

\* a-b-c, a/b/c and a^b^c with the values they have when read from the left.
EqualRankExpressions ==
  {[text  |-> Lit(a) \o "-" \o Lit(c) \o "-" \o Lit(d),
    value |-> (a - c) - d] : a \in Operands, c \in Operands, d \in Operands}
  \cup
  {[text  |-> Lit(a) \o "/" \o Lit(c) \o "/" \o Lit(d),
    value |-> (a \div c) \div d] : a \in Operands, c \in Operands, d \in Operands}
  \cup
  {[text  |-> Lit(a) \o "^" \o Lit(c) \o "^" \o Lit(d),
    value |-> (a ^ c) ^ d] : a \in PowerOperands, c \in PowerOperands, d \in PowerOperands}

InitOperators ==
  /\ b = Basic
  /\ pc = "idle"
  /\ current_line \in {x.text : x \in MinusExpressions \cup EqualRankExpressions}
  /\ current_line_ref = [size |-> 0, data |-> Terminator]
  /\ m_program_ref = << [first |-> 0 - 1, second |-> [ptr |-> 0, size |-> 0]] >>
  /\ returned = Ok(EMPTY_BASIC_VALUE)
  /\ cout = << >>
  /\ caught = << >>
  /\ entered = [n \in LineNumbers |-> NoText]
  /\ last_line = 0 - 1
  /\ last_text = ""
  /\ passes = FALSE
  /\ matched = 0 - 1
  /\ gosub_lines = << >>

NextOperators == Evaluate

\* evaluate is called for an expression that is a chain of operators.
SpecOperators == InitOperators /\ [][NextOperators]_vars

\* C26: a '-' that follows a complete operand is the subtraction, whatever
\* operators wait on the stack, and a '-' with no left operand pending is
\* the negation: a+b*c-d evaluates to a+(b*c)-d, and a*-b to -(a*b).
C26_MinusAfterOperandSubtracts ==
  pc = "evaluated" =>
    \A x \in MinusExpressions :
      current_line = x.text =>
        /\ returned.err = ""
        /\ returned.v.first = "INTEGER"
        /\ returned.v.second = x.value

\* C27: binary operators of equal rank are applied from left to right:
\* a-b-c evaluates to (a-b)-c, a/b/c to (a/b)/c and a^b^c to (a^b)^c.
C27_EqualRankLeftToRight ==
  pc = "evaluated" =>
    \A x \in EqualRankExpressions :
      current_line = x.text =>
        /\ returned.err = ""
        /\ returned.v.first = "INTEGER"
        /\ returned.v.second = x.value

\* 2^3^2 has been evaluated, to 64.
C27_PowerOfPower ==
  /\ pc = "evaluated"
  /\ current_line = "2^3^2"
  /\ returned = Ok(basic_value_integer(64))


\* ------------------------------------------------------------------------
\* A program run beside the symbols of the prompt: the engine of main( ) is
\* constructed with a program, the user assigns and prints at the prompt
\* and runs the program, which assigns and prints under the same names.
\* ------------------------------------------------------------------------

\* The prompt assigns 5 and declares A(2); the programs assign 7 and
\* declare A(3).
PromptStatements == {"X=5", "DIM A(2)", "A(0)=5", "PRINT X", "PRINT Y", "PRINT A(0)"}

ChildPrograms ==
  {"10 X=7\n20 PRINT X",
   "10 Y=7\n20 PRINT X",
   "10 DIM A(3)\n20 A(0)=7",
   "10 PRINT A(0)\n20 PRINT Y"}

PromptValue == basic_value_integer(5)
ProgramValue == basic_value_integer(7)

EnterPrompt ==
  \E s \in PromptStatements :
    /\ Type(s)
    /\ UNCHANGED entered

InitChild ==
  /\ b \in {BasicOf(program_code) : program_code \in ChildPrograms}
  /\ pc = "idle"
  /\ current_line = ""
  /\ current_line_ref = [size |-> 0, data |-> Terminator]
  /\ m_program_ref = << [first |-> 0 - 1, second |-> [ptr |-> 0, size |-> 0]] >>
  /\ returned = TRUE
  /\ cout = << >>
  /\ caught = << >>
  /\ entered = [n \in LineNumbers |-> NoText]
  /\ last_line = 0 - 1
  /\ last_text = ""
  /\ passes = FALSE
  /\ matched = 0 - 1
  /\ gosub_lines = << >>

NextChild == EnterPrompt \/ RunStart \/ RunStep

SpecChild == InitChild /\ [][NextChild]_vars

\* The values an engine holds in its variables and in the cells of its arrays.
ValuesOf(e) ==
  {e.m_variables[n] : n \in DOMAIN e.m_variables}
  \cup UNION {{e.m_arrays[n].m_values[i] : i \in DOMAIN e.m_arrays[n].m_values} :
               n \in DOMAIN e.m_arrays}

\* The dimensions of the arrays an engine holds.
DimensionsOf(e) == {e.m_arrays[n].m_dimensions : n \in DOMAIN e.m_arrays}

\* The step is one of RUN: the call of m_keywords["RUN"] or a pass of the
\* loop of run( ) in the child.
RunTexts == {"RUN"} \cup {"RUN " \o integer_to_string(n) : n \in LineNumbers}

\* C30: RUN executes the program in a child engine that shares no mutable
\* state with its parent: no step of RUN changes the variables or the arrays
\* of the parent, the child never holds or prints a value or an array of the
\* prompt, and the parent never holds or prints one of the program.
C30_ChildSharesNothing ==
  [][\A after \in {b'} :
      /\ current_line' \in RunTexts =>
            /\ after.m_variables = b.m_variables
            /\ after.m_arrays = b.m_arrays
            /\ \A i \in DOMAIN cout' : cout'[i] # "5"
      /\ current_line' \in PromptStatements =>
            /\ after.m_basic = b.m_basic
            /\ \A i \in DOMAIN cout' : cout'[i] # "7"
      /\ ProgramValue \notin ValuesOf(after)
      /\ << 3 >> \notin DimensionsOf(after)
      /\ after.m_basic # << >> =>
            /\ PromptValue \notin ValuesOf(after.m_basic[1])
            /\ << 2 >> \notin DimensionsOf(after.m_basic[1])]_vars

\* After X=5 at the prompt and a run of 10 X=7 / 20 PRINT X, the parent
\* holds 5 under X and the child 7, which the program printed.
C30_BothHoldTheirOwn ==
  /\ pc = "idle"
  /\ current_line = "RUN"
  /\ "X" \in DOMAIN b.m_variables
  /\ b.m_variables["X"] = PromptValue
  /\ b.m_basic # << >>
  /\ "X" \in DOMAIN b.m_basic[1].m_variables
  /\ b.m_basic[1].m_variables["X"] = ProgramValue
  /\ last_text = "PRINT X"
  /\ \E i \in DOMAIN cout : cout[i] = "7"


\* ------------------------------------------------------------------------
\* Comparisons of values of every type: the engine is constructed with a
\* program text that leaves variables of each type, and evaluate( ) is
\* called with one comparison of two of them.
\* ------------------------------------------------------------------------

\* E and the cells of A are Empty, N is Integer, S String; TRUE and FALSE
\* are the Boolean constants of every engine.
TypedSymbols == "DIM A(1)\nE=A(0)\nN=1\nS=\"A\""

TypedOperands ==
  {[text |-> "E", type |-> "EMPTY"], [text |-> "A(0)", type |-> "EMPTY"],
   [text |-> "TRUE", type |-> "BOOLEAN"], [text |-> "FALSE", type |-> "BOOLEAN"],
   [text |-> "N", type |-> "INTEGER"], [text |-> "S", type |-> "STRING"]}

ComparisonNames == {"=", "<", "<=", ">", ">="}

Comparisons ==
  {[text |-> l.text \o oper \o r.text, oper |-> oper, lhs |-> l.type, rhs |-> r.type] :
     l \in TypedOperands, r \in TypedOperands, oper \in ComparisonNames}

InitCompare ==
  /\ b = BasicOf(TypedSymbols)
  /\ pc = "idle"
  /\ current_line \in {x.text : x \in Comparisons}
  /\ current_line_ref = [size |-> 0, data |-> Terminator]
  /\ m_program_ref = << [first |-> 0 - 1, second |-> [ptr |-> 0, size |-> 0]] >>
  /\ returned = Ok(EMPTY_BASIC_VALUE)
  /\ cout = << >>
  /\ caught = << >>
  /\ entered = [n \in LineNumbers |-> NoText]
  /\ last_line = 0 - 1
  /\ last_text = ""
  /\ passes = FALSE
  /\ matched = 0 - 1
  /\ gosub_lines = << >>

NextCompare == Evaluate

SpecCompare == InitCompare /\ [][NextCompare]_vars

\* C31: Empty = Empty, Empty <= Empty and Empty >= Empty are TRUE,
\* Empty < Empty and Empty > Empty are FALSE, and the comparison of Empty
\* with a value of another type, or of a Boolean with a value that is no
\* Boolean, raises SYNTAX.
C31_EmptyAndBooleanComparisons ==
  pc = "evaluated" =>
    \A x \in Comparisons :
      current_line = x.text =>
        /\ (x.lhs = "EMPTY" /\ x.rhs = "EMPTY") =>
              returned = Ok(basic_value_boolean(x.oper \in {"=", "<=", ">="}))
        /\ (x.lhs # x.rhs /\ "EMPTY" \in {x.lhs, x.rhs}) => returned.err = "SYNTAX"
        /\ (x.lhs # x.rhs /\ "BOOLEAN" \in {x.lhs, x.rhs}) => returned.err = "SYNTAX"

\* A(0)<=E was evaluated to TRUE.
C31_EmptyCellAgainstEmptyVariable ==
  /\ pc = "evaluated"
  /\ current_line = "A(0)<=E"
  /\ b.m_variables["E"] = EMPTY_BASIC_VALUE
  /\ returned = Ok(basic_value_boolean(TRUE))


\* ------------------------------------------------------------------------
\* NEW at the prompt of an engine that holds a program, a variable and an
\* array, and what LIST, RUN, DIM and a read of a cell do after it.
\* ------------------------------------------------------------------------

FormerCell == "PRINT A(0)"

\* The user reads a cell of A.
EnterFormer ==
  /\ Type(FormerCell)
  /\ UNCHANGED entered

NextNew ==
  StoreLine \/ EnterSymbol \/ EnterFormer \/ EnterNew \/ EnterList \/ RunStart \/ RunStep

SpecNew == Init /\ [][NextNew]_vars

\* C32: after NEW at the prompt the program store holds the sentinel line
\* only and no scalar variable exists; a LIST that follows prints no line
\* and a RUN that follows executes no line.
C32_NewEmptiesProgramAndVariables ==
  [][\A after \in {b'} :
      /\ current_line' = "NEW" =>
            /\ after.m_program = << [first |-> 0 - 1, second |-> ""] >>
            /\ after.m_variables = EmptyMap
            /\ returned'
      /\ (current_line = "NEW" /\ current_line' = "LIST") =>
            /\ caught' = << >>
            /\ \A i \in DOMAIN cout' : cout'[i] \in {"", "READY"}
      /\ (current_line = "NEW" /\ current_line' \in RunTexts) =>
            /\ pc' # "running"
            /\ cout' \in {<< >>, << "", "READY" >>}
            /\ last_line' = 0 - 1]_vars

\* A program with line 10 was run, NEW was entered and then LIST.
C32_ListedAfterNew ==
  /\ pc = "idle"
  /\ current_line = "LIST"
  /\ last_line = 10
  /\ b.m_program = << [first |-> 0 - 1, second |-> ""] >>
  /\ b.m_variables = EmptyMap
  /\ b.m_basic = << Basic >>
  /\ \A i \in DOMAIN cout : cout[i] \in {"", "READY"}

\* C40: after NEW no array of an earlier DIM exists: is_array is false for
\* every name, a read of a cell of a former array fails with SYNTAX, and the
\* name can be declared again by DIM without an error.
C40_NewRemovesArrays ==
  [][\A after \in {b'} :
      /\ current_line' = "NEW" => \A name \in DeclaredNames : ~is_array(after, name)
      /\ (current_line = "NEW" /\ current_line' = FormerCell) => caught' = << "SYNTAX" >>
      /\ (current_line = "NEW" /\ current_line' = "DIM A(2)") =>
            /\ caught' = << >>
            /\ is_array(after, "A")]_vars


\* ------------------------------------------------------------------------
\* Programs without a jump: the engine is constructed with one to three
\* lines, each a statement that neither jumps nor fails, and the user runs
\* the program.
\* ------------------------------------------------------------------------

\* Statements that go on to the next line, and statements that end the run.
PlainTexts == {"REM", "PRINT 1", "X=5"}
EndingTexts == {"END", "STOP"}
StraightTexts == PlainTexts \cup EndingTexts

StraightPrograms ==
  {"10 " \o t : t \in StraightTexts}
  \cup {"10 " \o t \o "\n20 " \o u : t \in StraightTexts, u \in StraightTexts}
  \cup {"20 " \o u \o "\n10 " \o t : t \in StraightTexts, u \in StraightTexts}
  \cup {"10 " \o t \o "\n20 " \o u \o "\n30 " \o v :
           t \in StraightTexts, u \in StraightTexts, v \in StraightTexts}

InitStraight ==
  /\ b \in {BasicOf(program_code) : program_code \in StraightPrograms}
  /\ pc = "idle"
  /\ current_line = ""
  /\ current_line_ref = [size |-> 0, data |-> Terminator]
  /\ m_program_ref = << [first |-> 0 - 1, second |-> [ptr |-> 0, size |-> 0]] >>
  /\ returned = TRUE
  /\ cout = << >>
  /\ caught = << >>
  /\ entered = [n \in LineNumbers |-> NoText]
  /\ last_line = 0 - 1
  /\ last_text = ""
  /\ passes = FALSE
  /\ matched = 0 - 1
  /\ gosub_lines = << >>

NextStraight == RunStart \/ RunStep

SpecStraight == InitStraight /\ [][NextStraight]_vars

\* Every line of the program of e is one of texts.
MadeOf(e, texts) ==
  \A i \in 1..Len(e.m_program) :
    0 <= e.m_program[i].first => e.m_program[i].second \in texts

\* The least of a set of numbers that is not empty.
Least(S) == CHOOSE n \in S : \A m \in S : n <= m

\* RUN without a line number starts on the lowest line; each pass
\* dispatches the line the cursor is on without an error and moves the
\* cursor forward to the next higher line, and with the pass of the highest
\* line run( ) returns true.
EveryLineOnceAscending ==
  \A child \in {IF pc' = "running" THEN b'.m_basic[1] ELSE Basic} :
  \A stored \in {StoredNumbers(b)} :
    /\ (pc = "idle" /\ current_line' = "RUN") =>
          /\ pc' = "running"
          /\ deref(child, child.m_program_it).first = Least(stored)
    /\ (pc = "running" /\ current_line = "RUN") =>
          /\ caught' = << >>
          /\ last_line' = CursorLine
          /\ IF \A n \in stored : n <= CursorLine
             THEN /\ pc' = "idle"
                  /\ returned' = TRUE
             ELSE /\ pc' = "running"
                  /\ child.m_program_it > b.m_basic[1].m_program_it
                  /\ deref(child, child.m_program_it).first =
                       Least({n \in stored : n > CursorLine})

UnreturnedPrograms ==
  {"10 GOSUB 30\n20 REM\n30 END",
   "10 GOSUB 30\n20 RETURN\n30 STOP",
   "10 GOSUB 20\n20 FOO"}

\* The user replaces line 10 by a RETURN.
EnterReturn ==
  /\ Type("10 RETURN")
  /\ entered' = [entered EXCEPT ![10] = "RETURN"]

InitStack ==
  /\ b \in {BasicOf(program_code) : program_code \in UnreturnedPrograms}
  /\ pc = "idle"
  /\ current_line = ""
  /\ current_line_ref = [size |-> 0, data |-> Terminator]
  /\ m_program_ref = << [first |-> 0 - 1, second |-> [ptr |-> 0, size |-> 0]] >>
  /\ returned = TRUE
  /\ cout = << >>
  /\ caught = << >>
  /\ entered = [n \in LineNumbers |-> NoText]
  /\ last_line = 0 - 1
  /\ last_text = ""
  /\ passes = FALSE
  /\ matched = 0 - 1
  /\ gosub_lines = << >>

NextStack == EnterReturn \/ RunStart \/ RunStep

SpecStack == InitStack /\ [][NextStack]_vars

\* C34: every RUN begins with an empty return stack: what a GOSUB pushed in
\* an earlier run, whose RETURN was never reached, is not there for a RETURN
\* of a later RUN, with or without a line number.
C34_RunStartsWithEmptyStack ==
  [][\A after \in {b'} :
      /\ (pc = "idle" /\ current_line' \in RunTexts /\ pc' = "running") =>
            after.m_basic[1].m_program_stack = << >>
      /\ (pc = "running" /\ last_text' = "RETURN" /\ gosub_lines = << >>) =>
            caught' # << >>]_vars


\* ------------------------------------------------------------------------
\* Jumps to line numbers the program may not have
\* ------------------------------------------------------------------------

JumpNames == {"GOTO", "GOSUB"}

\* 10, 20 and 30 are lines of the programs; 5, 15, 25 and 35 are not.
JumpTargets == {5, 10, 15, 20, 25, 30, 35}

JumpPrograms ==
  {"10 " \o j \o " " \o integer_to_string(n) \o "\n20 " \o t \o "\n30 END" :
     j \in JumpNames, n \in JumpTargets, t \in {"PRINT 1", "END"}}

InitJump ==
  /\ b \in {BasicOf(program_code) : program_code \in JumpPrograms}
  /\ pc = "idle"
  /\ current_line = ""
  /\ current_line_ref = [size |-> 0, data |-> Terminator]
  /\ m_program_ref = << [first |-> 0 - 1, second |-> [ptr |-> 0, size |-> 0]] >>
  /\ returned = TRUE
  /\ cout = << >>
  /\ caught = << >>
  /\ entered = [n \in LineNumbers |-> NoText]
  /\ last_line = 0 - 1
  /\ last_text = ""
  /\ passes = FALSE
  /\ matched = 0 - 1
  /\ gosub_lines = << >>

NextJump == RunStart \/ RunStep

SpecJump == InitJump /\ [][NextJump]_vars

\* The line number n of the statement GOTO n or GOSUB n, or -1 for another text.
JumpTarget(text) ==
  LET parsed == split_in_two_on_char(text, " ") IN
  IF Len(parsed) = 2 /\ to_upper_copy(parsed[1]) \in JumpNames
     /\ get_value_type(parsed[2]) = "INTEGER"
  THEN to_integer(parsed[2]).v ELSE 0 - 1

\* C35: in a running program GOTO n or GOSUB n with a number n that is no
\* line of the program raises SYNTAX and leaves the cursor and the return
\* stack as they were, instead of moving the cursor anywhere.
C35_JumpToMissingLineIsRefused ==
  [][pc = "running" =>
       \A child \in {b.m_basic[1]} :
       \A after \in {b'.m_basic[1]} :
       \A n \in {JumpTarget(deref(child, child.m_program_it).second)} :
         (n >= 0 /\ ~HasLine(child, n)) =>
           /\ caught' = << "SYNTAX" >>
           /\ after.m_program_it = child.m_program_it
           /\ after.m_program_stack = child.m_program_stack]_vars


\* ------------------------------------------------------------------------
\* CONT with nothing to continue
\* ------------------------------------------------------------------------

\* No program was run by the engine, or the run before went through the
\* last line of the program.
NothingToContinue(e) ==
  \/ e.m_basic = << >>
  \/ /\ e.m_basic # << >>
     /\ e.m_basic[1].m_program_it >= end(e.m_basic[1])

\* C36: CONT with nothing to continue (no program was run in the session,
\* or the last run executed its final line) raises a SYNTAX error that the
\* session survives: parse_line returns true and no program line is executed.
C36_ContWithNothingIsSyntax ==
  [][(pc = "idle" /\ current_line' = "CONT" /\ NothingToContinue(b)) =>
       /\ caught' = << "SYNTAX" >>
       /\ returned' = TRUE
       /\ pc' = "idle"]_vars


\* ------------------------------------------------------------------------
\* Assignments whose right-hand side fails
\* ------------------------------------------------------------------------

\* C37: a LET, explicit or implicit, whose right-hand side fails to
\* evaluate leaves the table of variables as it was: the statement creates
\* no variable, and a variable that is its target keeps its value.
C37_FailedLetChangesNothing ==
  [][\A line \in {current_line'} :
     \A assignment \in {AssignmentOf(line)} :
       (assignment.name # "" /\ evaluate(b, assignment.source).err # "") =>
         /\ caught' # << >>
         /\ b'.m_variables = b.m_variables]_vars


\* ------------------------------------------------------------------------
\* Listings at the prompt
\* ------------------------------------------------------------------------

ListingNames == {"VARS", "FUNCTIONS", "KEYWORDS"}

\* The statements typed between the listings.
ListedStatements == {"X=5", "Y=\"A\"", "DIM A(2)", "CLR"}

\* The names the tables are asked about: one of each table, one of none,
\* and the empty name.
AskedNames == {"X", "A", "PI", "LEN", "PRINT", "Q", ""}

EnterListing ==
  \E name \in ListingNames :
    /\ Type(name)
    /\ UNCHANGED entered

EnterListed ==
  \E s \in ListedStatements :
    /\ Type(s)
    /\ UNCHANGED entered

NextListing == EnterListing \/ EnterListed

SpecListing == Init /\ [][NextListing]_vars

\* What is_variable, is_constant, is_function and is_keyword answer for name.
Answers(e, name) ==
  << is_variable(e, name), is_constant(e, name), is_function(e, name), is_keyword(e, name) >>

\* C38: a listing is read-only: for every name is_variable, is_constant,
\* is_function and is_keyword answer after VARS, FUNCTIONS or KEYWORDS what
\* they answered before it, and a listing typed again right after itself
\* writes the text it wrote the first time.
C38_ListingsAreReadOnly ==
  [][\A typed \in {current_line'} : \A after \in {b'} : \A text \in {cout'} :
       typed \in ListingNames =>
         /\ \A name \in AskedNames : Answers(after, name) = Answers(b, name)
         /\ current_line = typed => text = cout]_vars


\* ------------------------------------------------------------------------
\* The order of Strings and of Booleans
\* ------------------------------------------------------------------------

\* The Strings compared, as the literals that spell them.
OrderedStrings == {"", "A", "AB", "B"}

Quoted(str) == "\"" \o str \o "\""

OrderNames == {"<", "<=", ">", ">="}

BooleanNames == {"TRUE", "FALSE"}

StringOrders ==
  {[text |-> Quoted(l) \o oper \o Quoted(r), oper |-> oper, lhs |-> l, rhs |-> r] :
     l \in OrderedStrings, r \in OrderedStrings, oper \in OrderNames}

BooleanOrders ==
  {[text |-> l \o oper \o r, oper |-> oper, lhs |-> l, rhs |-> r] :
     l \in BooleanNames, r \in BooleanNames, oper \in OrderNames}

InitOrder ==
  /\ b = Basic
  /\ pc = "idle"
  /\ current_line \in {x.text : x \in StringOrders \cup BooleanOrders}
  /\ current_line_ref = [size |-> 0, data |-> Terminator]
  /\ m_program_ref = << [first |-> 0 - 1, second |-> [ptr |-> 0, size |-> 0]] >>
  /\ returned = Ok(EMPTY_BASIC_VALUE)
  /\ cout = << >>
  /\ caught = << >>
  /\ entered = [n \in LineNumbers |-> NoText]
  /\ last_line = 0 - 1
  /\ last_text = ""
  /\ passes = FALSE
  /\ matched = 0 - 1
  /\ gosub_lines = << >>

NextOrder == Evaluate

SpecOrder == InitOrder /\ [][NextOrder]_vars

\* lhs sorts before rhs: at the first place where they differ lhs has the
\* smaller character, or lhs is a proper beginning of rhs.
RECURSIVE SortsBefore(_, _)
SortsBefore(lhs, rhs) ==
  IF rhs = "" THEN FALSE
  ELSE IF lhs = "" THEN TRUE
  ELSE IF CharAt(lhs, 0) # CharAt(rhs, 0)
       THEN Ord(CharAt(lhs, 0)) < Ord(CharAt(rhs, 0))
  ELSE SortsBefore(substr_from(lhs, 1), substr_from(rhs, 1))

\* C39: for two Strings a < b is TRUE exactly when a sorts before b, a > b
\* exactly when a sorts after b, a <= b and a >= b exactly when it does not
\* sort after, or before, b; for two Booleans a > b is what b < a is.
C39_StringsAndBooleansInOrder ==
  pc = "evaluated" =>
    /\ \A x \in StringOrders :
         current_line = x.text =>
           returned = Ok(basic_value_boolean(
                           CASE x.oper = "<"  -> SortsBefore(x.lhs, x.rhs)
                             [] x.oper = ">"  -> SortsBefore(x.rhs, x.lhs)
                             [] x.oper = "<=" -> ~SortsBefore(x.rhs, x.lhs)
                             [] x.oper = ">=" -> ~SortsBefore(x.lhs, x.rhs)))
    /\ \A x \in BooleanOrders :
         (current_line = x.text /\ x.oper = ">") =>
           returned = evaluate(b, x.rhs \o "<" \o x.lhs)

====
